---- MODULE Spec2Model ----
(***************************************************************************)
(* Model of the druid-shell platform layer: the per-window idle queue and  *)
(* its drain on the UI thread (backend/mac/window.rs), the input event     *)
(* router of the macOS view (backend/mac/window.rs), WGL context creation  *)
(* (backend/windows/gl.rs), the life cycle of a macOS window from          *)
(* WindowBuilder::build to dealloc (backend/mac/window.rs) and the         *)
(* negotiation of a GL context from the caller's requirements (gl.rs,      *)
(* backend/mac/gl.rs, backend/windows/gl.rs).                              *)
(*                                                                         *)
(* Each part has its own specification (SpecIdle, SpecRouter and           *)
(* SpecInput, SpecWgl, SpecWindow, SpecGl) which moves the variables of    *)
(* its part and leaves the variables of the other parts at their initial   *)
(* values.                                                                 *)
(***************************************************************************)
EXTENDS Integers, Sequences, FiniteSets, TLC

\* ------------------------------------------------------------------------
\* Bounds of the model
\* ------------------------------------------------------------------------

\* number of background threads that hold an IdleHandle
NumProducers == 2

\* number of add_idle calls the background threads make in total
MaxPush == 2

\* number of add_idle calls the UI thread makes (from handler code)
MaxUiPush == 1

\* largest x coordinate at which a mouse event arrives
MaxPos == 0

\* largest number of rectangles in a registered drag region
MaxRects == 1

\* number of set_dragable_area calls the application makes
MaxAreaCalls == 1

\* number of native notifications delivered to the view
MaxEvents == 4

\* number of Context::new calls made on the window
MaxCalls == 2

\* number of pixel format ids the driver offers
MaxFormat == 2

\* largest logical width a window or a resize has
MaxSize == 1

\* number of WindowHandle calls, and of window notifications, after build
MaxOps == 1

\* largest major and largest minor number of a requested GL version
MaxMajor == 4

MaxMinor == 2

\* largest coordinate of a requested window position and of a parent window
MaxCoord == 1

\* largest width and height of a window
MaxExtent == 2

\* number of WindowHandle and IdleHandle calls made on a built window
MaxGeoOps == 2

\* number of changes the platform makes to the window, its parent and its
\* screen
MaxGeoNotes == 2

\* largest magnitude of a native scroll delta on one axis
MaxDelta == 3

\* number of calls that concern the text fields of one window
MaxTextCalls == 3

\* height of the display rectangle
ScreenHeight == 4

\* number of values of a u8 (nsevent.clickCount() as u8)
U8Range == 256

\* ------------------------------------------------------------------------
\* Idle queue: state
\* ------------------------------------------------------------------------

VARIABLES
    viewAlive,   \* the NSView and its ViewState exist (dealloc has not run)
    queue,       \* contents of ViewState.idle_queue (the Vec under the Mutex)
    mutex,       \* holder of the queue Mutex: Free or a thread
    wakes,       \* runIdle selectors pending on the main thread
    pc,          \* per thread: position inside IdleHandle::add_idle
    cur,         \* per thread: the IdleKind being pushed by add_idle
    sent,        \* per thread: number of add_idle calls made so far
    uiPc,        \* position of the UI thread inside run_idle
    taken,       \* run_idle: the not yet executed rest of the taken Vec
    current,     \* run_idle: the item being executed
    \* history of the run, read by the properties only
    pushOrder,   \* ids in the order their queue.push completed
    pushEpochs,  \* for each entry of pushOrder: drains done at that push
    executed,    \* ids in the order run_idle executed them
    execEpochs,  \* for each entry of executed: the drain that executed it
    drains,      \* number of mem::take swaps performed by run_idle
    deadPushes   \* items whose push found the Weak queue not upgradable

queueVars == <<queue, mutex, wakes>>
callVars == <<pc, cur>>
drainVars == <<uiPc, taken, current>>
pushHist == <<pushOrder, pushEpochs>>
execHist == <<executed, execEpochs>>

idleVars == <<viewAlive, queueVars, callVars, sent, drainVars, pushHist,
              execHist, drains, deadPushes>>

\* ------------------------------------------------------------------------
\* Mouse event router: state
\* ------------------------------------------------------------------------

VARIABLES
    drag_window,    \* ViewState.drag_window
    focus_click,    \* ViewState.focus_click
    mouse_left,     \* ViewState.mouse_left
    dragable_area,  \* ViewState.dragable_area: the rectangles of the Region
    areaCalls,      \* number of set_dragable_area calls made
    pressed,        \* native button numbers held (NSEvent pressedMouseButtons)
    handlerLog,     \* the callbacks the WinHandler has received, in order
    dragCalls,      \* number of performWindowDragWithEvent messages sent
    nEvents,        \* number of native notifications processed
    interpretCalls, \* number of interpretKeyEvents messages sent to the view
    \* history of the run, read by the properties only
    lastEvent,      \* the native notification processed last
    dragArmed,      \* a drag-region button-down happened, no button-up since
    lastDown,       \* kind of the last native button-down
    focusPending,   \* acceptsFirstMouse was asked, no left button-up since
    lastReturn      \* what key_down returned in the last notification

routerFlags == <<drag_window, focus_click, mouse_left>>
routerHist == <<lastEvent, dragArmed, lastDown, focusPending, lastReturn>>
routerVars == <<routerFlags, dragable_area, areaCalls, pressed, handlerLog,
                dragCalls, nEvents, interpretCalls, routerHist>>

\* ------------------------------------------------------------------------
\* WGL context creation: state
\* ------------------------------------------------------------------------

VARIABLES
    wglPc,          \* position of the calling thread inside Context::new
    curCtx,         \* the (HDC, HGLRC) pair current on the calling thread
    guardPrev,      \* previous_hdc/previous_hglrc of the live guard
    surfaceFormat,  \* pixel format id bound to the window's HDC, 0 if none
    dummyFormat,    \* pixel format id bound to the live dummy window
    dummyWindows,   \* dummy windows that exist
    dummyCtx,       \* the dummy context exists
    newCtx,         \* the context created by this call exists
    contexts,       \* contexts returned by earlier calls
    platformExt,    \* extension strings the driver advertises
    vsync,          \* GlAttributes.vsync of the call
    result,         \* outcome of the call once it has returned
    nCalls,         \* number of Context::new calls made
    \* history of the run, read by the properties only
    entryCur,       \* curCtx when the call was entered
    entryFormat,    \* surfaceFormat when the call was entered
    spfWrites,      \* successful SetPixelFormat calls on the window's HDC
    spfOnBound      \* SetPixelFormat was called on an HDC with a format

wglSurface == <<surfaceFormat, spfWrites, spfOnBound>>
wglCall == <<platformExt, vsync, nCalls, entryCur, entryFormat>>
wglDummy == <<dummyFormat, dummyWindows, dummyCtx>>
wglCurrent == <<curCtx, guardPrev>>
wglVars == <<wglPc, result, wglCurrent, wglSurface, wglCall, wglDummy, newCtx,
             contexts>>

\* ------------------------------------------------------------------------
\* Window life cycle: state
\* ------------------------------------------------------------------------

VARIABLES
    buildResult,        \* outcome of WindowBuilder::build once it has ended
    nswindow,           \* the NSWindow: "none", "hidden", "visible", "closed"
    glCurrent,          \* an NSOpenGLContext was created and made current
    nsview,             \* what WindowHandle.nsview resolves to
    windowState,        \* the WindowState of the NSWindow
    pendingState,       \* the WindowState queued by set_window_state
    pendingClose,       \* a close selector is queued on the main thread
    winLog,             \* the callbacks the WinHandler has received, in order
    rendererSize,       \* the size last given to renderer.set_size
    rendererScale,      \* the scale last given to renderer.set_scale
    active_text_input,  \* ViewState.active_text_input
    context_menu_pos,   \* ViewState.context_menu_pos
    deferredOps,        \* DeferredOps handed to the idle queue by defer
    nOps,               \* number of WindowHandle calls made
    nNotes,             \* number of window notifications delivered
    \* history of the run, read by the properties only
    lastOp              \* the WindowHandle call made last and how it ended

winNative == <<nswindow, glCurrent, nsview, windowState>>
winPending == <<pendingState, pendingClose>>
winRenderer == <<rendererSize, rendererScale>>
winFields == <<active_text_input, context_menu_pos, deferredOps>>
winVars == <<buildResult, winNative, winPending, winLog, winRenderer,
             winFields, nOps, nNotes, lastOp>>

\* ------------------------------------------------------------------------
\* GL context negotiation: state
\* ------------------------------------------------------------------------

VARIABLES
    glPc,       \* "idle", or "returned" once a negotiation call has ended
    glCall,     \* the function called last, with its arguments
    glResult,   \* what that call gave back to its caller
    glEffects   \* what that call did on the platform before it ended

glVars == <<glPc, glCall, glResult, glEffects>>

\* ------------------------------------------------------------------------
\* Window geometry: state
\* ------------------------------------------------------------------------

VARIABLES
    geoLife,       \* "unbuilt", "open", "closed" once windowWillClose has
                   \* been sent, "gone" after dealloc
    frame,         \* the NSWindow frame, origin at the bottom left
    parentPos,     \* what ViewState.parent's get_position returns, if any
    backingScale,  \* NSScreen::backingScaleFactor of the window
    backingNoted,  \* the view was notified of the last change of the scale
    geoRenderer,   \* the size and scale last given to the renderer
    geoQueue,      \* ViewState.idle_queue
    geoTaken,      \* run_idle: the not yet executed rest of the taken Vec
    geoOps,        \* number of handle calls made
    geoNotes,      \* number of changes made by the platform
    \* history of the run, read by the properties only
    geoExecuted,   \* the executed items, in the order of their execution
    sought         \* the argument of the set_position drained last, while
                   \* the window height and the parent position are as then

geoWindow == <<frame, parentPos, backingScale, backingNoted, geoRenderer>>
geoIdle == <<geoQueue, geoTaken>>
geoHist == <<geoExecuted, sought>>
geoVars == <<geoLife, geoWindow, geoIdle, geoOps, geoNotes, geoHist>>

vars == <<idleVars, routerVars, wglVars, winVars, glVars, geoVars>>

\* the UI (main) thread and the background producers
UI == 0
Producers == 1..NumProducers
Threads == {UI} \cup Producers

\* the value of mutex when no thread holds the lock
Free == -1

\* enum IdleKind
IdleKind == {"Callback", "Token", "DeferredOp"}

NoItem == [id |-> <<UI, 0>>, kind |-> "None"]

\* position of x in the sequence s, 0 when absent
IndexOf(s, x) == IF \E i \in 1..Len(s) : s[i] = x
                 THEN CHOOSE i \in 1..Len(s) : s[i] = x
                 ELSE 0

SeqToSet(s) == {s[i] : i \in 1..Len(s)}

NoDup(s) == \A i, j \in 1..Len(s) : s[i] = s[j] => i = j

\* strong count of the Arc<Mutex<Vec<IdleKind>>> is not zero: ViewState owns
\* one reference, every add_idle in flight owns the one it upgraded
QueueStrong == viewAlive \/ \E t \in Threads : pc[t] # "idle"

\* an upgrade that ignores the strong count
UpgradeAlways(strong) == TRUE

\* Weak::upgrade succeeds while a strong reference exists
Upgrade(strong) == strong

InitIdle ==
    /\ viewAlive = TRUE
    /\ queue = <<>>
    /\ mutex = Free
    /\ wakes = 0
    /\ pc = [t \in Threads |-> "idle"]
    /\ cur = [t \in Threads |-> NoItem]
    /\ sent = [t \in Threads |-> 0]
    /\ uiPc = "idle"
    /\ taken = <<>>
    /\ current = NoItem
    /\ pushOrder = <<>>
    /\ pushEpochs = <<>>
    /\ executed = <<>>
    /\ execEpochs = <<>>
    /\ drains = 0
    /\ deadPushes = {}

\* ------------------------------------------------------------------------
\* Idle queue: IdleHandle::add_idle and its callers
\* ------------------------------------------------------------------------

\* number of add_idle calls made so far by the threads of S
RECURSIVE SumSent(_)
SumSent(S) == IF S = {} THEN 0
              ELSE LET t == CHOOSE x \in S : TRUE
                   IN  sent[t] + SumSent(S \ {t})

\* A thread calls into a handle when it is not already inside add_idle; the
\* UI thread does so from the run loop or from inside an executing item.
MayCall(t) ==
    /\ pc[t] = "idle"
    /\ IF t = UI THEN sent[UI] < MaxUiPush
                 ELSE SumSent(Producers) < MaxPush
    /\ t = UI => uiPc \in {"idle", "exec"}

\* the item the next call of thread t carries
NewItem(t, kind) == [id |-> <<t, sent[t] + 1>>, kind |-> kind]

\* add_idle, first statement: self.idle_queue.upgrade()
add_idle(t, item) ==
    /\ sent' = [sent EXCEPT ![t] = @ + 1]
    /\ deadPushes' = IF QueueStrong THEN deadPushes
                     ELSE deadPushes \cup {item}
    /\ IF Upgrade(QueueStrong)
       THEN /\ pc' = [pc EXCEPT ![t] = "upgraded"]
            /\ cur' = [cur EXCEPT ![t] = item]
       ELSE UNCHANGED callVars
    /\ UNCHANGED <<viewAlive, queueVars, drainVars, pushHist, execHist,
                   drains>>

\* IdleHandle::add_idle_callback
add_idle_callback(t) ==
    /\ MayCall(t)
    /\ add_idle(t, NewItem(t, "Callback"))
    /\ UNCHANGED <<routerVars, wglVars, winVars, glVars, geoVars>>

\* IdleHandle::add_idle_token
add_idle_token(t) ==
    /\ MayCall(t)
    /\ add_idle(t, NewItem(t, "Token"))
    /\ UNCHANGED <<routerVars, wglVars, winVars, glVars, geoVars>>

\* WindowHandle::get_idle_handle: None when the view reference is nil
get_idle_handle(alive) == alive

\* WindowHandle::defer, reached from set_size and set_position; a
\* WindowHandle lives on the UI thread
defer(t) ==
    /\ MayCall(t)
    /\ IF get_idle_handle(viewAlive)
       THEN add_idle(t, NewItem(t, "DeferredOp"))
       ELSE /\ sent' = [sent EXCEPT ![t] = @ + 1]
            /\ deadPushes' = IF QueueStrong THEN deadPushes
                             ELSE deadPushes \cup {NewItem(t, "DeferredOp")}
            /\ UNCHANGED <<viewAlive, queueVars, callVars, drainVars,
                           pushHist, execHist, drains>>
    /\ UNCHANGED <<routerVars, wglVars, winVars, glVars, geoVars>>

\* add_idle: queue.lock()
AddIdleLock(t) ==
    /\ pc[t] = "upgraded"
    /\ mutex = Free
    /\ mutex' = t
    /\ pc' = [pc EXCEPT ![t] = "locked"]
    /\ UNCHANGED <<viewAlive, queue, wakes, cur, sent, drainVars, pushHist,
                   execHist, drains, deadPushes>>
    /\ UNCHANGED <<routerVars, wglVars, winVars, glVars, geoVars>>

\* a wake for every push but the one into an empty queue
NeedsWakeInverted(q) == q # <<>>

\* a wake for every push
NeedsWakeAlways(q) == TRUE

\* add_idle: queue.is_empty(), the condition for sending runIdle
NeedsWake(q) == q = <<>>

\* a push at the front of the Vec
PushFront(q, item) == <<item>> \o q

\* Vec::push
Push(q, item) == Append(q, item)

\* add_idle under the lock: if queue.is_empty() the runIdle selector is sent
\* to the view (a message to a nil view schedules nothing), then
\* queue.push(idle); the guard and the upgraded Arc go out of scope
AddIdlePush(t) ==
    /\ pc[t] = "locked"
    /\ wakes' = IF NeedsWake(queue) /\ viewAlive THEN wakes + 1 ELSE wakes
    /\ queue' = Push(queue, cur[t])
    /\ mutex' = Free
    /\ pc' = [pc EXCEPT ![t] = "idle"]
    /\ cur' = [cur EXCEPT ![t] = NoItem]
    /\ pushOrder' = Append(pushOrder, cur[t].id)
    /\ pushEpochs' = Append(pushEpochs, drains)
    /\ UNCHANGED <<viewAlive, sent, drainVars, execHist, drains, deadPushes>>
    /\ UNCHANGED <<routerVars, wglVars, winVars, glVars, geoVars>>

\* ------------------------------------------------------------------------
\* Idle queue: run_idle on the UI thread
\* ------------------------------------------------------------------------

\* the main run loop performs a pending runIdle selector
RunIdleEnter ==
    /\ viewAlive
    /\ wakes > 0
    /\ uiPc = "idle"
    /\ pc[UI] = "idle"
    /\ wakes' = wakes - 1
    /\ uiPc' = "run_idle"
    /\ UNCHANGED <<viewAlive, queue, mutex, callVars, sent, taken, current,
                   pushHist, execHist, drains, deadPushes>>
    /\ UNCHANGED <<routerVars, wglVars, winVars, glVars, geoVars>>

\* run_idle: view_state.idle_queue.lock()
RunIdleLock ==
    /\ uiPc = "run_idle"
    /\ mutex = Free
    /\ mutex' = UI
    /\ uiPc' = "swap"
    /\ UNCHANGED <<viewAlive, queue, wakes, callVars, sent, taken, current,
                   pushHist, execHist, drains, deadPushes>>
    /\ UNCHANGED <<routerVars, wglVars, winVars, glVars, geoVars>>

\* a drain that takes only the first item of the queue
RunIdleTakeOne ==
    /\ uiPc = "swap"
    /\ taken' = IF queue = <<>> THEN <<>> ELSE <<Head(queue)>>
    /\ queue' = IF queue = <<>> THEN <<>> ELSE Tail(queue)
    /\ mutex' = Free
    /\ drains' = drains + 1
    /\ uiPc' = "loop"
    /\ UNCHANGED <<viewAlive, wakes, callVars, sent, current, pushHist,
                   execHist, deadPushes>>
    /\ UNCHANGED <<routerVars, wglVars, winVars, glVars, geoVars>>

\* a drain that copies the queue and leaves it in place
RunIdleTakeClone ==
    /\ uiPc = "swap"
    /\ taken' = queue
    /\ mutex' = Free
    /\ drains' = drains + 1
    /\ uiPc' = "loop"
    /\ UNCHANGED <<viewAlive, queue, wakes, callVars, sent, current,
                   pushHist, execHist, deadPushes>>
    /\ UNCHANGED <<routerVars, wglVars, winVars, glVars, geoVars>>

\* a drain that keeps the guard alive over the for loop
RunIdleTakeHoldingLock ==
    /\ uiPc = "swap"
    /\ taken' = queue
    /\ queue' = <<>>
    /\ drains' = drains + 1
    /\ uiPc' = "loop"
    /\ UNCHANGED <<viewAlive, mutex, wakes, callVars, sent, current,
                   pushHist, execHist, deadPushes>>
    /\ UNCHANGED <<routerVars, wglVars, winVars, glVars, geoVars>>

\* run_idle: mem::take(&mut *guard); the temporary guard is dropped at the
\* end of the statement, before the for loop
RunIdleTake ==
    /\ uiPc = "swap"
    /\ taken' = queue
    /\ queue' = <<>>
    /\ mutex' = Free
    /\ drains' = drains + 1
    /\ uiPc' = "loop"
    /\ UNCHANGED <<viewAlive, wakes, callVars, sent, current, pushHist,
                   execHist, deadPushes>>
    /\ UNCHANGED <<routerVars, wglVars, winVars, glVars, geoVars>>

\* run_idle: `for item in queue` hands the next item to the handler
RunIdleExecBegin ==
    /\ uiPc = "loop"
    /\ taken # <<>>
    /\ current' = Head(taken)
    /\ taken' = Tail(taken)
    /\ uiPc' = "exec"
    /\ UNCHANGED <<viewAlive, queueVars, callVars, sent, pushHist, execHist,
                   drains, deadPushes>>
    /\ UNCHANGED <<routerVars, wglVars, winVars, glVars, geoVars>>

\* run_idle: it.call(handler) / handler.idle(token) / run_deferred returns
RunIdleExecEnd ==
    /\ uiPc = "exec"
    /\ pc[UI] = "idle"
    /\ executed' = Append(executed, current.id)
    /\ execEpochs' = Append(execEpochs, drains)
    /\ current' = NoItem
    /\ uiPc' = "loop"
    /\ UNCHANGED <<viewAlive, queueVars, callVars, sent, taken, pushHist,
                   drains, deadPushes>>
    /\ UNCHANGED <<routerVars, wglVars, winVars, glVars, geoVars>>

\* run_idle: the loop is over, control returns to the run loop
RunIdleReturn ==
    /\ uiPc = "loop"
    /\ taken = <<>>
    /\ uiPc' = "idle"
    /\ UNCHANGED <<viewAlive, queueVars, callVars, sent, taken, current,
                   pushHist, execHist, drains, deadPushes>>
    /\ UNCHANGED <<routerVars, wglVars, winVars, glVars, geoVars>>

\* dealloc of the view: Box::from_raw drops ViewState and with it the Arc of
\* the queue.  A selector pending on the main thread retains its receiver,
\* and dealloc runs on the main thread between two callbacks.
dealloc ==
    /\ viewAlive
    /\ uiPc = "idle"
    /\ pc[UI] = "idle"
    /\ wakes = 0
    /\ viewAlive' = FALSE
    /\ UNCHANGED <<queueVars, callVars, sent, drainVars, pushHist, execHist,
                   drains, deadPushes>>
    /\ UNCHANGED <<routerVars, wglVars, winVars, glVars, geoVars>>

NextIdle ==
    \/ \E t \in Threads : add_idle_callback(t)
    \/ \E t \in Threads : add_idle_token(t)
    \/ defer(UI)
    \/ \E t \in Threads : AddIdleLock(t)
    \/ \E t \in Threads : AddIdlePush(t)
    \/ RunIdleEnter
    \/ RunIdleLock
    \/ RunIdleTake
    \/ RunIdleExecBegin
    \/ RunIdleExecEnd
    \/ RunIdleReturn
    \/ dealloc

\* ------------------------------------------------------------------------
\* Mouse event router (backend/mac/window.rs)
\* ------------------------------------------------------------------------

\* the x coordinates at which native mouse events arrive
Positions == 0..MaxPos

\* a rectangle is the half-open interval <<x0, x1>> of the x axis
Rects == {r \in (0..MaxPos + 1) \X (0..MaxPos + 1) : r[1] < r[2]}

\* the regions an application registers with set_dragable_area
Regions == {S \in SUBSET Rects : Cardinality(S) <= MaxRects}

\* native click counts: a single click, a double click, and the least count
\* above one whose low eight bits are 1
ClickCounts == {1, 2, U8Range + 1}

\* native button numbers an otherMouseDown/otherMouseUp carries: one that
\* get_mouse_button maps and one that it does not
ButtonNumbers == {2, 5}

Nothing == "Nothing"

\* Rect::contains as used on event.pos
Contains(rect, pos) == rect[1] <= pos /\ pos < rect[2]

\* get_mouse_button that takes every index above 4 for the last button
get_mouse_button_clamped(button) ==
    CASE button = 0 -> "Left"
      [] button = 1 -> "Right"
      [] button = 2 -> "Middle"
      [] button = 3 -> "X1"
      [] OTHER -> "X2"

get_mouse_button(button) ==
    CASE button = 0 -> "Left"
      [] button = 1 -> "Right"
      [] button = 2 -> "Middle"
      [] button = 3 -> "X1"
      [] button = 4 -> "X2"
      [] OTHER -> Nothing

\* the MouseButtons set decoded from the pressedMouseButtons mask
get_mouse_buttons(mask) == {get_mouse_button(n) : n \in mask \cap 0..4}

\* nsevent.clickCount() as u8
AsU8(n) == n % U8Range

NoEvent == [type |-> "none", dragRegion |-> FALSE]

Callback(cb, button, focus) == [cb |-> cb, button |-> button, focus |-> focus]

InitRouter ==
    /\ drag_window = FALSE
    /\ focus_click = FALSE
    /\ mouse_left = TRUE
    /\ dragable_area = {}
    /\ areaCalls = 0
    /\ pressed = {}
    /\ handlerLog = <<>>
    /\ dragCalls = 0
    /\ nEvents = 0
    /\ interpretCalls = 0
    /\ lastEvent = NoEvent
    /\ dragArmed = FALSE
    /\ lastDown = "none"
    /\ focusPending = FALSE
    /\ lastReturn = "none"

\* one more native notification is delivered to the view
Native(type, dragRegion) ==
    /\ nEvents < MaxEvents
    /\ nEvents' = nEvents + 1
    /\ lastEvent' = [type |-> type, dragRegion |-> dragRegion]

\* a button-down in the drag region as the window sees it: one click of the
\* primary button inside a registered rectangle
DragRegionDown(number, clickCount, pos) ==
    /\ number = 0
    /\ clickCount = 1
    /\ \E rect \in dragable_area : Contains(rect, pos)

\* a pointer notification: key_down is not called and nothing is sent to
\* interpretKeyEvents
Pointer(type, dragRegion) ==
    /\ Native(type, dragRegion)
    /\ lastReturn' = "none"
    /\ UNCHANGED interpretCalls

\* the native side of a button-down: the button is now held
NativeDown(number, clickCount, pos) ==
    /\ number \notin pressed
    /\ Pointer("down", DragRegionDown(number, clickCount, pos))
    /\ UNCHANGED focusPending
    /\ pressed' = pressed \cup {number}
    /\ dragArmed' = (dragArmed \/ DragRegionDown(number, clickCount, pos))
    /\ lastDown' = IF DragRegionDown(number, clickCount, pos)
                   THEN "drag" ELSE "other"

\* the native side of a button-up: the button is no longer held
NativeUp(number) ==
    /\ number \in pressed
    /\ Pointer("up", FALSE)
    /\ pressed' = pressed \ {number}
    /\ dragArmed' = FALSE
    /\ focusPending' = (focusPending /\ number # 0)
    /\ UNCHANGED lastDown

\* performWindowDragWithEvent messages sent by the loop over the rectangles:
\* the loop breaks at the first rectangle that contains the position
DragCallsOf(area, pos) == IF \E rect \in area : Contains(rect, pos) THEN 1 ELSE 0

mouse_down(button, clickCount, pos) ==
    LET count == AsU8(clickCount)
        focus == focus_click /\ button = "Left"
        drag == /\ count = 1
                /\ button = "Left"
                /\ \E rect \in dragable_area : Contains(rect, pos)
    IN  /\ drag_window' = drag
        /\ dragCalls' = IF count = 1 /\ button = "Left"
                        THEN dragCalls + DragCallsOf(dragable_area, pos)
                        ELSE dragCalls
        /\ handlerLog' = Append(handlerLog, Callback("mouse_down", button, focus))
        /\ UNCHANGED <<focus_click, mouse_left, dragable_area, areaCalls>>

mouse_down_left(clickCount, pos) ==
    /\ NativeDown(0, clickCount, pos)
    /\ mouse_down("Left", clickCount, pos)
    /\ UNCHANGED <<idleVars, wglVars, winVars, glVars, geoVars>>

mouse_down_right(clickCount, pos) ==
    /\ NativeDown(1, clickCount, pos)
    /\ mouse_down("Right", clickCount, pos)
    /\ UNCHANGED <<idleVars, wglVars, winVars, glVars, geoVars>>

mouse_down_other(number, clickCount, pos) ==
    /\ NativeDown(number, clickCount, pos)
    /\ IF get_mouse_button(number) # Nothing
       THEN mouse_down(get_mouse_button(number), clickCount, pos)
       ELSE UNCHANGED <<routerFlags, dragable_area, areaCalls, handlerLog,
                         dragCalls>>
    /\ UNCHANGED <<idleVars, wglVars, winVars, glVars, geoVars>>

\* mouse_up that leaves focus_click set
mouse_up_sticky(button) ==
    LET focus == focus_click /\ button = "Left"
        up == Callback("mouse_up", button, focus)
        leave == Callback("mouse_leave", "None", FALSE)
    IN  /\ drag_window' = FALSE
        /\ handlerLog' = IF mouse_left /\ get_mouse_buttons(pressed') = {}
                         THEN handlerLog \o <<up, leave>>
                         ELSE Append(handlerLog, up)
        /\ UNCHANGED <<focus_click, mouse_left, dragable_area, areaCalls,
                       dragCalls>>

\* mouse_up that reports the leave before the button-up
mouse_up_leave_first(button) ==
    LET focus == focus_click /\ button = "Left"
        up == Callback("mouse_up", button, focus)
        leave == Callback("mouse_leave", "None", FALSE)
    IN  /\ drag_window' = FALSE
        /\ focus_click' = IF focus THEN FALSE ELSE focus_click
        /\ handlerLog' = IF mouse_left /\ get_mouse_buttons(pressed') = {}
                         THEN handlerLog \o <<leave, up>>
                         ELSE Append(handlerLog, up)
        /\ UNCHANGED <<mouse_left, dragable_area, areaCalls, dragCalls>>

mouse_up(button) ==
    LET focus == focus_click /\ button = "Left"
        up == Callback("mouse_up", button, focus)
        leave == Callback("mouse_leave", "None", FALSE)
    IN  /\ drag_window' = FALSE
        /\ focus_click' = IF focus THEN FALSE ELSE focus_click
        /\ handlerLog' = IF mouse_left /\ get_mouse_buttons(pressed') = {}
                         THEN handlerLog \o <<up, leave>>
                         ELSE Append(handlerLog, up)
        /\ UNCHANGED <<mouse_left, dragable_area, areaCalls, dragCalls>>

mouse_up_left ==
    /\ NativeUp(0)
    /\ mouse_up("Left")
    /\ UNCHANGED <<idleVars, wglVars, winVars, glVars, geoVars>>

mouse_up_right ==
    /\ NativeUp(1)
    /\ mouse_up("Right")
    /\ UNCHANGED <<idleVars, wglVars, winVars, glVars, geoVars>>

mouse_up_other(number) ==
    /\ NativeUp(number)
    /\ IF get_mouse_button(number) # Nothing
       THEN mouse_up(get_mouse_button(number))
       ELSE UNCHANGED <<routerFlags, dragable_area, areaCalls, handlerLog,
                         dragCalls>>
    /\ UNCHANGED <<idleVars, wglVars, winVars, glVars, geoVars>>

\* mouseMoved, mouseDragged, rightMouseDragged and otherMouseDragged
mouse_move ==
    /\ Pointer("move", FALSE)
    /\ handlerLog' = IF drag_window
                     THEN handlerLog
                     ELSE Append(handlerLog, Callback("mouse_move", "None", FALSE))
    /\ UNCHANGED <<routerFlags, dragable_area, areaCalls, pressed, dragCalls,
                   dragArmed, lastDown, focusPending>>
    /\ UNCHANGED <<idleVars, wglVars, winVars, glVars, geoVars>>

\* mouse_enter that hands its mouse_move to the handler ahead of the
\* callbacks already made
mouse_enter_reordered ==
    /\ Pointer("enter", FALSE)
    /\ mouse_left' = FALSE
    /\ handlerLog' = <<Callback("mouse_move", "None", FALSE)>> \o handlerLog
    /\ UNCHANGED <<drag_window, focus_click, dragable_area, areaCalls, pressed,
                   dragCalls, dragArmed, lastDown, focusPending>>
    /\ UNCHANGED <<idleVars, wglVars, winVars, glVars, geoVars>>

mouse_enter ==
    /\ Pointer("enter", FALSE)
    /\ mouse_left' = FALSE
    /\ handlerLog' = Append(handlerLog, Callback("mouse_move", "None", FALSE))
    /\ UNCHANGED <<drag_window, focus_click, dragable_area, areaCalls, pressed,
                   dragCalls, dragArmed, lastDown, focusPending>>
    /\ UNCHANGED <<idleVars, wglVars, winVars, glVars, geoVars>>

\* mouse_leave that keeps the leave back while a button is held
mouse_leave_deferred ==
    /\ Pointer("leave", FALSE)
    /\ mouse_left' = TRUE
    /\ handlerLog' = IF get_mouse_buttons(pressed) = {}
                     THEN Append(handlerLog, Callback("mouse_leave", "None", FALSE))
                     ELSE handlerLog
    /\ UNCHANGED <<drag_window, focus_click, dragable_area, areaCalls, pressed,
                   dragCalls, dragArmed, lastDown, focusPending>>
    /\ UNCHANGED <<idleVars, wglVars, winVars, glVars, geoVars>>

mouse_leave ==
    /\ Pointer("leave", FALSE)
    /\ mouse_left' = TRUE
    /\ handlerLog' = Append(handlerLog, Callback("mouse_leave", "None", FALSE))
    /\ UNCHANGED <<drag_window, focus_click, dragable_area, areaCalls, pressed,
                   dragCalls, dragArmed, lastDown, focusPending>>
    /\ UNCHANGED <<idleVars, wglVars, winVars, glVars, geoVars>>

\* acceptsFirstMouse: AppKit asks, before it delivers a left click that
\* makes the window key, whether the view takes that click.  It is a query,
\* not one of the input notifications counted by nEvents.
acceptsFirstMouse ==
    /\ ~focus_click
    /\ focus_click' = TRUE
    /\ focusPending' = TRUE
    /\ UNCHANGED <<drag_window, mouse_left, dragable_area, areaCalls, pressed,
                   handlerLog, dragCalls, nEvents, interpretCalls, lastEvent,
                   dragArmed, lastDown, lastReturn>>
    /\ UNCHANGED <<idleVars, wglVars, winVars, glVars, geoVars>>

\* WindowHandle::set_dragable_area, called by the application while the view
\* exists
set_dragable_area(area) ==
    /\ areaCalls < MaxAreaCalls
    /\ areaCalls' = areaCalls + 1
    /\ dragable_area' = area
    /\ UNCHANGED <<routerFlags, pressed, handlerLog, dragCalls, nEvents,
                   interpretCalls, routerHist>>
    /\ UNCHANGED <<idleVars, wglVars, winVars, glVars, geoVars>>

\* scrollWheel: the handler's wheel callback gets the event
scroll_wheel ==
    /\ Pointer("scroll", FALSE)
    /\ handlerLog' = Append(handlerLog, Callback("wheel", "None", FALSE))
    /\ UNCHANGED <<routerFlags, dragable_area, areaCalls, pressed, dragCalls,
                   dragArmed, lastDown, focusPending>>
    /\ UNCHANGED <<idleVars, wglVars, winVars, glVars, geoVars>>

\* magnifyWithEvent: the handler's zoom callback gets the magnification
pinch_event ==
    /\ Pointer("pinch", FALSE)
    /\ handlerLog' = Append(handlerLog, Callback("zoom", "None", FALSE))
    /\ UNCHANGED <<routerFlags, dragable_area, areaCalls, pressed, dragCalls,
                   dragArmed, lastDown, focusPending>>
    /\ UNCHANGED <<idleVars, wglVars, winVars, glVars, geoVars>>

\* what keyboard_state.process_native_event returns for a notification:
\* no event, or a KeyEvent with its KeyState
KeyEvents == {"None", "Down", "Up"}

\* a keyboard notification: the pointer state of the view is not touched
Keyboard(type) ==
    /\ Native(type, FALSE)
    /\ UNCHANGED <<routerFlags, dragable_area, areaCalls, pressed, dragCalls,
                   dragArmed, lastDown, focusPending>>

\* keyDown: the handler gets the event, and the native event goes on to
\* interpretKeyEvents when the handler returns false
\* key_down with the test of the handler's answer inverted
key_down_inverted(event, handled) ==
    /\ Keyboard("keyDown")
    /\ IF event # "None"
       THEN /\ handlerLog' = Append(handlerLog, Callback("key_down", "None", FALSE))
            /\ lastReturn' = IF handled THEN "true" ELSE "false"
            /\ interpretCalls' = IF handled THEN interpretCalls + 1
                                  ELSE interpretCalls
       ELSE /\ lastReturn' = "none"
            /\ UNCHANGED <<handlerLog, interpretCalls>>
    /\ UNCHANGED <<idleVars, wglVars, winVars, glVars, geoVars>>

key_down(event, handled) ==
    /\ Keyboard("keyDown")
    /\ IF event # "None"
       THEN /\ handlerLog' = Append(handlerLog, Callback("key_down", "None", FALSE))
            /\ lastReturn' = IF handled THEN "true" ELSE "false"
            /\ interpretCalls' = IF handled THEN interpretCalls
                                  ELSE interpretCalls + 1
       ELSE /\ lastReturn' = "none"
            /\ UNCHANGED <<handlerLog, interpretCalls>>
    /\ UNCHANGED <<idleVars, wglVars, winVars, glVars, geoVars>>

key_up(event) ==
    /\ Keyboard("keyUp")
    /\ handlerLog' = IF event # "None"
                     THEN Append(handlerLog, Callback("key_up", "None", FALSE))
                     ELSE handlerLog
    /\ lastReturn' = "none"
    /\ UNCHANGED interpretCalls
    /\ UNCHANGED <<idleVars, wglVars, winVars, glVars, geoVars>>

\* flagsChanged: a modifier key went down or up; what key_down returns is
\* dropped
mods_changed(event, handled) ==
    /\ Keyboard("flagsChanged")
    /\ handlerLog' =
           CASE event = "Down" -> Append(handlerLog, Callback("key_down", "None", FALSE))
             [] event = "Up" -> Append(handlerLog, Callback("key_up", "None", FALSE))
             [] OTHER -> handlerLog
    /\ lastReturn' = IF event = "Down"
                     THEN (IF handled THEN "true" ELSE "false")
                     ELSE "none"
    /\ UNCHANGED interpretCalls
    /\ UNCHANGED <<idleVars, wglVars, winVars, glVars, geoVars>>

NextRouter ==
    \/ \E c \in ClickCounts, p \in Positions : mouse_down_left(c, p)
    \/ \E c \in ClickCounts, p \in Positions : mouse_down_right(c, p)
    \/ \E n \in ButtonNumbers, c \in ClickCounts, p \in Positions :
           mouse_down_other(n, c, p)
    \/ mouse_up_left
    \/ mouse_up_right
    \/ \E n \in ButtonNumbers : mouse_up_other(n)
    \/ mouse_move
    \/ mouse_enter
    \/ mouse_leave
    \/ acceptsFirstMouse
    \/ \E area \in Regions : set_dragable_area(area)

\* the input notifications of a view for which the application registers no
\* drag region: pointer and keyboard notifications in any order
NextInput ==
    \/ \E c \in ClickCounts, p \in Positions : mouse_down_left(c, p)
    \/ \E c \in ClickCounts, p \in Positions : mouse_down_right(c, p)
    \/ \E n \in ButtonNumbers, c \in ClickCounts, p \in Positions :
           mouse_down_other(n, c, p)
    \/ mouse_up_left
    \/ mouse_up_right
    \/ \E n \in ButtonNumbers : mouse_up_other(n)
    \/ mouse_move
    \/ mouse_enter
    \/ mouse_leave
    \/ acceptsFirstMouse
    \/ scroll_wheel
    \/ pinch_event
    \/ \E event \in {"None", "Down"}, handled \in BOOLEAN : key_down(event, handled)
    \/ \E event \in {"None", "Up"} : key_up(event)
    \/ \E event \in KeyEvents, handled \in BOOLEAN : mods_changed(event, handled)

\* ------------------------------------------------------------------------
\* WGL context creation (backend/windows/gl.rs)
\* ------------------------------------------------------------------------

\* (HDC, HGLRC) pairs that can be current on the calling thread
NoCurrent == <<"null", "null">>
AppCurrent == <<"app_hdc", "app_hglrc">>
DummyCurrent == <<"dummy_hdc", "dummy_ctx">>
NewCurrent == <<"hdc", "context">>

\* pixel format ids of the driver; 0 is "no format"
Formats == 1..MaxFormat

\* the extension strings Context::new looks for
Extensions == {"WGL_ARB_pixel_format", "WGL_EXT_swap_control"}

WglAt(ext, format) ==
    /\ wglPc = "idle"
    /\ result = "none"
    /\ curCtx = NoCurrent
    /\ guardPrev = NoCurrent
    /\ surfaceFormat = format
    /\ spfWrites = 0
    /\ spfOnBound = FALSE
    /\ platformExt = ext
    /\ vsync = FALSE
    /\ nCalls = 0
    /\ entryCur = NoCurrent
    /\ entryFormat = format
    /\ dummyFormat = 0
    /\ dummyWindows = 0
    /\ dummyCtx = FALSE
    /\ newCtx = FALSE
    /\ contexts = 0

\* the window exists, with or without a pixel format bound by earlier code
InitWgl == \E ext \in SUBSET Extensions, format \in {0} \cup Formats :
               WglAt(ext, format)

\* the call returns r to its caller
Return(r) == wglPc' = "returned" /\ result' = r

\* wglMakeCurrent(target): the pairs that can be current afterwards.  A call
\* that fails leaves the previous pair current or leaves none current.
MakeCurrent(target, ok) == IF ok THEN {target} ELSE {curCtx, NoCurrent}

\* Context::new is entered with vsync v while pair c is current
ContextNew(v, c) ==
    /\ wglPc = "idle"
    /\ nCalls < MaxCalls
    /\ nCalls' = nCalls + 1
    /\ vsync' = v
    /\ curCtx' = c
    /\ entryCur' = c
    /\ entryFormat' = surfaceFormat
    /\ result' = "none"
    /\ wglPc' = "GetDC"
    /\ UNCHANGED <<guardPrev, wglSurface, platformExt, wglDummy, newCtx,
                   contexts>>
    /\ UNCHANGED <<idleVars, routerVars, winVars, glVars, geoVars>>

GetDCStep(ok) ==
    /\ wglPc = "GetDC"
    /\ IF ok
       THEN wglPc' = "load_extra_functions" /\ UNCHANGED result
       ELSE Return("Err")
    /\ UNCHANGED <<wglCurrent, wglSurface, wglCall, wglDummy, newCtx, contexts>>
    /\ UNCHANGED <<idleVars, routerVars, winVars, glVars, geoVars>>

\* load_extra_functions: GetWindowPlacement, GetClassNameW, GetClassInfoExW
LoadExtraClass(outcome) ==
    /\ wglPc = "load_extra_functions"
    /\ CASE outcome = "ok" -> wglPc' = "CreateWindowExW" /\ UNCHANGED result
         [] outcome = "err" -> Return("Err")
         [] outcome = "panic" -> Return("Panic")
    /\ UNCHANGED <<wglCurrent, wglSurface, wglCall, wglDummy, newCtx, contexts>>
    /\ UNCHANGED <<idleVars, routerVars, winVars, glVars, geoVars>>

LoadExtraCreateWindow(ok) ==
    /\ wglPc = "CreateWindowExW"
    /\ IF ok
       THEN /\ dummyWindows' = dummyWindows + 1
            /\ wglPc' = "dummy_GetDC"
            /\ UNCHANGED result
       ELSE Return("Err") /\ UNCHANGED dummyWindows
    /\ UNCHANGED <<wglCurrent, wglSurface, wglCall, dummyFormat, dummyCtx,
                   newCtx, contexts>>
    /\ UNCHANGED <<idleVars, routerVars, winVars, glVars, geoVars>>

\* GetDC on the dummy window; on failure the function returns before the
\* window is put in its WindowWrapper
LoadExtraGetDC(ok) ==
    /\ wglPc = "dummy_GetDC"
    /\ IF ok
       THEN wglPc' = "dummy_pixel_format" /\ UNCHANGED result
       ELSE Return("Err")
    /\ UNCHANGED <<wglCurrent, wglSurface, wglCall, wglDummy, newCtx, contexts>>
    /\ UNCHANGED <<idleVars, routerVars, winVars, glVars, geoVars>>

\* choose_dummy_pixel_format and set_pixel_format on the dummy window
LoadExtraPixelFormat(ok, id) ==
    /\ wglPc = "dummy_pixel_format"
    /\ IF ok
       THEN /\ dummyFormat' = id
            /\ wglPc' = "dummy_create_context"
            /\ UNCHANGED <<result, dummyWindows>>
       ELSE /\ Return("Err")
            /\ dummyWindows' = dummyWindows - 1
            /\ UNCHANGED dummyFormat
    /\ UNCHANGED <<wglCurrent, wglSurface, wglCall, dummyCtx, newCtx, contexts>>
    /\ UNCHANGED <<idleVars, routerVars, winVars, glVars, geoVars>>

LoadExtraCreateContext(ok) ==
    /\ wglPc = "dummy_create_context"
    /\ IF ok
       THEN /\ dummyCtx' = TRUE
            /\ wglPc' = "dummy_make_current"
            /\ UNCHANGED <<result, dummyWindows, dummyFormat>>
       ELSE /\ Return("Err")
            /\ dummyWindows' = dummyWindows - 1
            /\ dummyFormat' = 0
            /\ UNCHANGED dummyCtx
    /\ UNCHANGED <<wglCurrent, wglSurface, wglCall, newCtx, contexts>>
    /\ UNCHANGED <<idleVars, routerVars, winVars, glVars, geoVars>>

\* CurrentContextGuard::make_current on the dummy context
LoadExtraMakeCurrent(ok) ==
    /\ wglPc = "dummy_make_current"
    /\ \E c \in MakeCurrent(DummyCurrent, ok) : curCtx' = c
    /\ IF ok
       THEN /\ guardPrev' = curCtx
            /\ wglPc' = "dummy_load"
            /\ UNCHANGED <<result, wglDummy>>
       ELSE /\ Return("Err")
            /\ dummyCtx' = FALSE
            /\ dummyWindows' = dummyWindows - 1
            /\ dummyFormat' = 0
            /\ UNCHANGED guardPrev
    /\ UNCHANGED <<wglSurface, wglCall, newCtx, contexts>>
    /\ UNCHANGED <<idleVars, routerVars, winVars, glVars, geoVars>>

\* a return that drops the dummy context before the guard
LoadExtraReturnContextFirst ==
    /\ wglPc = "dummy_load"
    /\ wglPc' = "drop_dummy_ctx"
    /\ UNCHANGED <<result, wglCurrent, wglSurface, wglCall, wglDummy, newCtx,
                   contexts>>
    /\ UNCHANGED <<idleVars, routerVars, winVars, glVars, geoVars>>

\* the functions are loaded and load_extra_functions returns; its locals
\* are dropped in the reverse order of their declaration.  First
\* _current_context: the guard makes the previous pair current
LoadExtraReturn ==
    /\ wglPc = "dummy_load"
    /\ curCtx' = guardPrev
    /\ wglPc' = "drop_dummy_ctx"
    /\ UNCHANGED <<result, guardPrev, wglSurface, wglCall, wglDummy, newCtx,
                   contexts>>
    /\ UNCHANGED <<idleVars, routerVars, winVars, glVars, geoVars>>

\* then dummy_ctx: ContextWrapper::drop calls wglDeleteContext, which
\* makes a context that is current on the thread not current before it
\* deletes it
LoadExtraDropContext ==
    /\ wglPc = "drop_dummy_ctx"
    /\ dummyCtx' = FALSE
    /\ curCtx' = IF curCtx = DummyCurrent THEN NoCurrent ELSE curCtx
    /\ wglPc' = "drop_dummy_win"
    /\ UNCHANGED <<result, guardPrev, wglSurface, wglCall, dummyFormat,
                   dummyWindows, newCtx, contexts>>
    /\ UNCHANGED <<idleVars, routerVars, winVars, glVars, geoVars>>

\* then dummy_win: WindowWrapper::drop calls DestroyWindow
LoadExtraDropWindow ==
    /\ wglPc = "drop_dummy_win"
    /\ dummyWindows' = dummyWindows - 1
    /\ dummyFormat' = 0
    /\ wglPc' = "GetPixelFormat"
    /\ UNCHANGED <<result, wglCurrent, wglSurface, wglCall, dummyCtx, newCtx,
                   contexts>>
    /\ UNCHANGED <<idleVars, routerVars, winVars, glVars, geoVars>>

\* a Context::new that writes the pixel format whatever GetPixelFormat said
RebindAlways(id) == TRUE

\* the check made on GetPixelFormat(hdc) before SetPixelFormat
NeedsPixelFormat(id) == id = 0

\* "calling SetPixelFormat, if not already done"
PixelFormatStep(outcome, id) ==
    /\ wglPc = "GetPixelFormat"
    /\ IF NeedsPixelFormat(surfaceFormat)
       THEN CASE outcome = "no_format" ->
                     Return("Err") /\ UNCHANGED wglSurface
              [] outcome = "set_failed" ->
                     /\ Return("Err")
                     /\ spfOnBound' = (spfOnBound \/ surfaceFormat # 0)
                     /\ UNCHANGED <<surfaceFormat, spfWrites>>
              [] outcome = "ok" ->
                     /\ surfaceFormat' = id
                     /\ spfWrites' = spfWrites + 1
                     /\ spfOnBound' = (spfOnBound \/ surfaceFormat # 0)
                     /\ wglPc' = "choose_pixel_format"
                     /\ UNCHANGED result
       ELSE /\ outcome = "ok"
            /\ id = surfaceFormat
            /\ wglPc' = "choose_pixel_format"
            /\ UNCHANGED <<result, wglSurface>>
    /\ UNCHANGED <<wglCurrent, wglCall, wglDummy, newCtx, contexts>>
    /\ UNCHANGED <<idleVars, routerVars, winVars, glVars, geoVars>>

\* choose_arb_pixel_format / choose_native_pixel_format on the bound id
DescribeStep(ok) ==
    /\ wglPc = "choose_pixel_format"
    /\ IF ok
       THEN wglPc' = "create_context" /\ UNCHANGED result
       ELSE Return("Err")
    /\ UNCHANGED <<wglCurrent, wglSurface, wglCall, wglDummy, newCtx, contexts>>
    /\ UNCHANGED <<idleVars, routerVars, winVars, glVars, geoVars>>

CreateContextStep(ok) ==
    /\ wglPc = "create_context"
    /\ IF ok
       THEN newCtx' = TRUE /\ wglPc' = "load_opengl32_dll" /\ UNCHANGED result
       ELSE Return("Err") /\ UNCHANGED newCtx
    /\ UNCHANGED <<wglCurrent, wglSurface, wglCall, wglDummy, contexts>>
    /\ UNCHANGED <<idleVars, routerVars, winVars, glVars, geoVars>>

LoadDllStep(ok) ==
    /\ wglPc = "load_opengl32_dll"
    /\ IF ok
       THEN wglPc' = "vsync" /\ UNCHANGED <<result, newCtx>>
       ELSE Return("Err") /\ newCtx' = FALSE
    /\ UNCHANGED <<wglCurrent, wglSurface, wglCall, wglDummy, contexts>>
    /\ UNCHANGED <<idleVars, routerVars, winVars, glVars, geoVars>>

\* without WGL_EXT_swap_control the context is returned as it is
VsyncSkip ==
    /\ wglPc = "vsync"
    /\ "WGL_EXT_swap_control" \notin platformExt
    /\ Return("Ok")
    /\ newCtx' = FALSE
    /\ contexts' = contexts + 1
    /\ UNCHANGED <<wglCurrent, wglSurface, wglCall, wglDummy>>
    /\ UNCHANGED <<idleVars, routerVars, winVars, glVars, geoVars>>

\* CurrentContextGuard::make_current on the new context
VsyncMakeCurrent(ok) ==
    /\ wglPc = "vsync"
    /\ "WGL_EXT_swap_control" \in platformExt
    /\ \E c \in MakeCurrent(NewCurrent, ok) : curCtx' = c
    /\ IF ok
       THEN /\ guardPrev' = curCtx
            /\ wglPc' = "SwapIntervalEXT"
            /\ UNCHANGED <<result, newCtx>>
       ELSE /\ Return("Err")
            /\ newCtx' = FALSE
            /\ UNCHANGED guardPrev
    /\ UNCHANGED <<wglSurface, wglCall, wglDummy, contexts>>
    /\ UNCHANGED <<idleVars, routerVars, winVars, glVars, geoVars>>

\* SwapIntervalEXT under the guard; the guard is dropped on both paths
SwapIntervalStep(ok) ==
    /\ wglPc = "SwapIntervalEXT"
    /\ curCtx' = guardPrev
    /\ newCtx' = FALSE
    /\ IF ok
       THEN Return("Ok") /\ contexts' = contexts + 1
       ELSE Return("Err") /\ UNCHANGED contexts
    /\ UNCHANGED <<guardPrev, wglSurface, wglCall, wglDummy>>
    /\ UNCHANGED <<idleVars, routerVars, winVars, glVars, geoVars>>

\* the caller takes the result
ContextNewDone ==
    /\ wglPc = "returned"
    /\ wglPc' = "idle"
    /\ UNCHANGED <<result, wglCurrent, wglSurface, wglCall, wglDummy, newCtx,
                   contexts>>
    /\ UNCHANGED <<idleVars, routerVars, winVars, glVars, geoVars>>

NextWgl ==
    \/ \E v \in BOOLEAN, c \in {NoCurrent, AppCurrent} : ContextNew(v, c)
    \/ \E ok \in BOOLEAN : GetDCStep(ok)
    \/ \E outcome \in {"ok", "err", "panic"} : LoadExtraClass(outcome)
    \/ \E ok \in BOOLEAN : LoadExtraCreateWindow(ok)
    \/ \E ok \in BOOLEAN : LoadExtraGetDC(ok)
    \/ \E ok \in BOOLEAN, id \in Formats : LoadExtraPixelFormat(ok, id)
    \/ \E ok \in BOOLEAN : LoadExtraCreateContext(ok)
    \/ \E ok \in BOOLEAN : LoadExtraMakeCurrent(ok)
    \/ LoadExtraReturn
    \/ LoadExtraDropContext
    \/ LoadExtraDropWindow
    \/ \E outcome \in {"no_format", "set_failed", "ok"}, id \in Formats :
           PixelFormatStep(outcome, id)
    \/ \E ok \in BOOLEAN : DescribeStep(ok)
    \/ \E ok \in BOOLEAN : CreateContextStep(ok)
    \/ \E ok \in BOOLEAN : LoadDllStep(ok)
    \/ VsyncSkip
    \/ \E ok \in BOOLEAN : VsyncMakeCurrent(ok)
    \/ \E ok \in BOOLEAN : SwapIntervalStep(ok)
    \/ ContextNewDone

\* ------------------------------------------------------------------------
\* Window life cycle (backend/mac/window.rs)
\* ------------------------------------------------------------------------

\* logical widths of the content view
Sizes == 1..MaxSize

\* NSScreen::backingScaleFactor of the window's screen
Scales == {1, 2}

\* WindowBuilder.window_state
WindowStates == {"Unset", "Restored", "Minimized", "Maximized"}

\* Option<TextFieldToken>
TextFields == {"None", "A", "B"}

\* the point of a context menu (ViewState.context_menu_pos starts at
\* Point::ZERO)
MenuPos == 1

\* the drag region an application registers through its handle
TitleBar == {<<0, 1>>}

WinCallback(cb, arg) == [cb |-> cb, arg |-> arg]

NoOp == [op |-> "none", viewGone |-> FALSE, outcome |-> "none"]

\* before WindowBuilder::build is called
InitWin ==
    /\ buildResult = "none"
    /\ nswindow = "none"
    /\ glCurrent = FALSE
    /\ nsview = "none"
    /\ windowState = "Restored"
    /\ pendingState = "Unset"
    /\ pendingClose = FALSE
    /\ winLog = <<>>
    /\ rendererSize = 0
    /\ rendererScale = 0
    /\ active_text_input = "None"
    /\ context_menu_pos = 0
    /\ deferredOps = 0
    /\ nOps = 0
    /\ nNotes = 0
    /\ lastOp = NoOp

\* WindowHandle::set_window_state: the change is queued on the main thread
\* (waitUntilDone: NO) unless the window is in that state already
set_window_state(state, cur_state) ==
    IF state \in {"Unset", cur_state} THEN "Unset" ELSE state

\* build up to the point where it fails: the NSWindow is allocated, the
\* context may exist, the handler has not been touched
BuildFails(r, gl) ==
    /\ buildResult' = r
    /\ nswindow' = "hidden"
    /\ glCurrent' = gl
    /\ UNCHANGED <<nsview, windowState, winPending, winLog, winRenderer>>

\* the three callbacks build makes on the handler
FirstCallbacks(scale, size) ==
    <<WinCallback("connect", 0), WinCallback("scale", scale),
      WinCallback("size", size)>>

\* a build that connects the handler before it creates the renderer
build_connect_first(handler, gl, renderer, state, scale, size) ==
    /\ buildResult = "none"
    /\ CASE ~gl -> BuildFails("Err", FALSE)
         [] gl /\ ~handler -> BuildFails("Panic", TRUE)
         [] gl /\ handler /\ ~renderer ->
                /\ buildResult' = "Err"
                /\ nswindow' = "hidden"
                /\ glCurrent' = TRUE
                /\ winLog' = <<WinCallback("connect", 0)>>
                /\ UNCHANGED <<nsview, windowState, winPending, winRenderer>>
         [] OTHER ->
                /\ buildResult' = "Ok"
                /\ nswindow' = "hidden"
                /\ glCurrent' = TRUE
                /\ nsview' = "live"
                /\ pendingState' = set_window_state(state, windowState)
                /\ winLog' = FirstCallbacks(scale, size)
                /\ rendererSize' = size * scale
                /\ rendererScale' = scale
                /\ UNCHANGED <<windowState, pendingClose>>
    /\ UNCHANGED <<winFields, nOps, nNotes, lastOp>>
    /\ UNCHANGED <<idleVars, routerVars, wglVars, glVars, geoVars>>

\* WindowBuilder::build: create_gl_context and WgpuRenderer::new may fail,
\* handler.expect panics when no handler was set; then the view is made and
\* the handler gets connect, scale and size
build(handler, gl, renderer, state, scale, size) ==
    /\ buildResult = "none"
    /\ CASE ~gl -> BuildFails("Err", FALSE)
         [] gl /\ ~renderer -> BuildFails("Err", TRUE)
         [] gl /\ renderer /\ ~handler -> BuildFails("Panic", TRUE)
         [] OTHER ->
                /\ buildResult' = "Ok"
                /\ nswindow' = "hidden"
                /\ glCurrent' = TRUE
                /\ nsview' = "live"
                /\ pendingState' = set_window_state(state, windowState)
                /\ winLog' = FirstCallbacks(scale, size)
                /\ rendererSize' = size * scale
                /\ rendererScale' = scale
                /\ UNCHANGED <<windowState, pendingClose>>
    /\ UNCHANGED <<winFields, nOps, nNotes, lastOp>>
    /\ UNCHANGED <<idleVars, routerVars, wglVars, glVars, geoVars>>

\* one more notification is delivered to the view by AppKit
Notified ==
    /\ nsview = "live"
    /\ nNotes < MaxOps
    /\ nNotes' = nNotes + 1

\* WindowHandle::show
show ==
    /\ buildResult = "Ok"
    /\ nsview = "live"
    /\ nswindow = "hidden"
    /\ nswindow' = "visible"
    /\ UNCHANGED <<buildResult, glCurrent, nsview, windowState, winPending,
                   winLog, winRenderer, winFields, nOps, nNotes, lastOp>>
    /\ UNCHANGED <<idleVars, routerVars, wglVars, glVars, geoVars>>

\* setFrameSize: the handler gets the size, the renderer the size in pixels
set_frame_size(size, scale) ==
    /\ Notified
    /\ winLog' = Append(winLog, WinCallback("size", size))
    /\ rendererSize' = size * scale
    /\ rendererScale' = scale
    /\ UNCHANGED <<buildResult, winNative, winPending, winFields, nOps, lastOp>>
    /\ UNCHANGED <<idleVars, routerVars, wglVars, glVars, geoVars>>

\* the performZoom / performMiniaturize / deminiaturize selector queued by
\* set_window_state runs
perform_window_state ==
    /\ pendingState # "Unset"
    /\ nswindow \in {"hidden", "visible"}
    /\ windowState' = pendingState
    /\ pendingState' = "Unset"
    /\ UNCHANGED <<buildResult, nswindow, glCurrent, nsview, pendingClose,
                   winLog, winRenderer, winFields, nOps, nNotes, lastOp>>
    /\ UNCHANGED <<idleVars, routerVars, wglVars, glVars, geoVars>>

\* windowShouldClose: the handler is asked, the window stays open
window_should_close ==
    /\ Notified
    /\ nswindow \in {"hidden", "visible"}
    /\ winLog' = Append(winLog, WinCallback("request_close", 0))
    /\ UNCHANGED <<buildResult, winNative, winPending, winRenderer, winFields,
                   nOps, lastOp>>
    /\ UNCHANGED <<idleVars, routerVars, wglVars, glVars, geoVars>>

\* WindowHandle::close: the close selector is queued on the main thread
close ==
    /\ buildResult = "Ok"
    /\ nsview = "live"
    /\ nswindow \in {"hidden", "visible"}
    /\ ~pendingClose
    /\ pendingClose' = TRUE
    /\ UNCHANGED <<buildResult, winNative, pendingState, winLog, winRenderer,
                   winFields, nOps, nNotes, lastOp>>
    /\ UNCHANGED <<idleVars, routerVars, wglVars, glVars, geoVars>>

\* windowWillClose, sent by the NSWindow when the queued close runs
window_will_close ==
    /\ pendingClose
    /\ nsview = "live"
    /\ nswindow \in {"hidden", "visible"}
    /\ pendingClose' = FALSE
    /\ nswindow' = "closed"
    /\ winLog' = Append(winLog, WinCallback("destroy", 0))
    /\ UNCHANGED <<buildResult, glCurrent, nsview, windowState, pendingState,
                   winRenderer, winFields, nOps, nNotes, lastOp>>
    /\ UNCHANGED <<idleVars, routerVars, wglVars, glVars, geoVars>>

\* dealloc of the view, with the handler told of the destruction
view_dealloc_notifying ==
    /\ nsview = "live"
    /\ nswindow = "closed"
    /\ nsview' = "nil"
    /\ winLog' = Append(winLog, WinCallback("destroy", 0))
    /\ UNCHANGED <<buildResult, nswindow, glCurrent, windowState, winPending,
                   winRenderer, winFields, nOps, nNotes, lastOp>>
    /\ UNCHANGED <<idleVars, routerVars, wglVars, glVars, geoVars>>

\* dealloc of the view, once the closed window has released it: the
\* ViewState box is dropped, the WeakPtr of every handle resolves to nil
view_dealloc ==
    /\ nsview = "live"
    /\ nswindow = "closed"
    /\ nsview' = "nil"
    /\ UNCHANGED <<buildResult, nswindow, glCurrent, windowState, winPending,
                   winLog, winRenderer, winFields, nOps, nNotes, lastOp>>
    /\ UNCHANGED <<idleVars, routerVars, wglVars, glVars, geoVars>>

\* one more call on a WindowHandle that build returned
Called(op, outcome) ==
    /\ buildResult = "Ok"
    /\ lastOp.outcome # "panic"
    /\ nOps < MaxOps
    /\ nOps' = nOps + 1
    /\ lastOp' = [op |-> op, viewGone |-> nsview = "nil", outcome |-> outcome]
    /\ UNCHANGED <<buildResult, winNative, winPending, winRenderer, nNotes>>

\* how a call ends that does its work under "if let Some(view)"
Guarded == IF nsview = "live" THEN "done" ELSE "noop"

\* how a call ends that unwraps the view reference
Unwrapped == IF nsview = "live" THEN "done" ELSE "panic"

\* WindowHandle::text
text ==
    /\ Called("text", Unwrapped)
    /\ UNCHANGED <<winFields, winLog>>
    /\ UNCHANGED <<idleVars, routerVars, wglVars, glVars, geoVars>>

\* WindowHandle::show_context_menu
show_context_menu(pos) ==
    /\ Called("show_context_menu", Unwrapped)
    /\ context_menu_pos' = IF nsview = "live" THEN pos ELSE context_menu_pos
    /\ UNCHANGED <<active_text_input, deferredOps, winLog>>
    /\ UNCHANGED <<idleVars, routerVars, wglVars, glVars, geoVars>>

\* WindowHandle::defer as called by set_size and set_position
Deferred == IF get_idle_handle(nsview = "live")
            THEN deferredOps + 1
            ELSE deferredOps

\* WindowHandle::set_size
set_size ==
    /\ Called("set_size", Guarded)
    /\ deferredOps' = Deferred
    /\ UNCHANGED <<active_text_input, context_menu_pos, winLog>>
    /\ UNCHANGED <<idleVars, routerVars, wglVars, glVars, geoVars>>

\* WindowHandle::set_position
set_position ==
    /\ Called("set_position", Guarded)
    /\ deferredOps' = Deferred
    /\ UNCHANGED <<active_text_input, context_menu_pos, winLog>>
    /\ UNCHANGED <<idleVars, routerVars, wglVars, glVars, geoVars>>

\* WindowHandle::get_idle_handle
GetIdleHandle ==
    /\ Called("get_idle_handle", Guarded)
    /\ UNCHANGED <<winFields, winLog>>
    /\ UNCHANGED <<idleVars, routerVars, wglVars, glVars, geoVars>>

\* WindowHandle::set_dragable_area on a handle whose view may be gone
HandleSetDragableArea(area) ==
    /\ Called("set_dragable_area", Guarded)
    /\ dragable_area' = IF nsview = "live" THEN area ELSE dragable_area
    /\ UNCHANGED <<winFields, winLog>>
    /\ UNCHANGED <<routerFlags, areaCalls, pressed, handlerLog, dragCalls,
                   nEvents, interpretCalls, routerHist>>
    /\ UNCHANGED <<idleVars, wglVars, glVars, geoVars>>

\* the callbacks update_text_field makes for a field: none unless the field
\* is the active one; for Reset and SelectionChanged the input lock is
\* taken and released
InputLock(active, token, update) ==
    IF active = token /\ token # "None" /\ update # "LayoutChanged"
    THEN <<WinCallback("acquire_input_lock", 0),
           WinCallback("release_input_lock", 0)>>
    ELSE <<>>

\* WindowHandle::set_focused_text_field: the old field is reset, the new
\* one becomes active and is reset
set_focused_text_field(active_field) ==
    /\ Called("set_focused_text_field", Guarded)
    /\ IF nsview = "live"
       THEN /\ active_text_input' = active_field
            /\ winLog' = winLog
                   \o InputLock(active_text_input, active_text_input, "Reset")
                   \o InputLock(active_field, active_field, "Reset")
       ELSE UNCHANGED <<active_text_input, winLog>>
    /\ UNCHANGED <<context_menu_pos, deferredOps>>
    /\ UNCHANGED <<idleVars, routerVars, wglVars, glVars, geoVars>>

\* WindowHandle::update_text_field: no field of ViewState is written
update_text_field(token, update) ==
    /\ Called("update_text_field", Guarded)
    /\ winLog' = IF nsview = "live"
                 THEN winLog \o InputLock(active_text_input, token, update)
                 ELSE winLog
    /\ UNCHANGED winFields
    /\ UNCHANGED <<idleVars, routerVars, wglVars, glVars, geoVars>>

\* WindowHandle::remove_text_field
remove_text_field(token) ==
    /\ Called("remove_text_field", Guarded)
    /\ active_text_input' = IF nsview = "live" /\ active_text_input = token
                            THEN "None"
                            ELSE active_text_input
    /\ UNCHANGED <<context_menu_pos, deferredOps, winLog>>
    /\ UNCHANGED <<idleVars, routerVars, wglVars, glVars, geoVars>>

NextWindow ==
    \/ \E handler, gl, renderer \in BOOLEAN, state \in WindowStates,
          scale \in Scales, size \in Sizes :
           build(handler, gl, renderer, state, scale, size)
    \/ show
    \/ \E size \in Sizes, scale \in Scales : set_frame_size(size, scale)
    \/ perform_window_state
    \/ window_should_close
    \/ close
    \/ window_will_close
    \/ view_dealloc
    \/ text
    \/ show_context_menu(MenuPos)
    \/ set_size
    \/ set_position
    \/ GetIdleHandle
    \/ HandleSetDragableArea(TitleBar)
    \/ \E field \in TextFields : set_focused_text_field(field)
    \/ \E token \in TextFields \ {"None"}, update \in {"LayoutChanged", "Reset"} :
           update_text_field(token, update)
    \/ \E token \in TextFields \ {"None"} : remove_text_field(token)

\* ------------------------------------------------------------------------
\* GL context negotiation: requests (gl.rs)
\* ------------------------------------------------------------------------

\* Option<T>: None is the empty tuple, Some(x) the tuple holding x
None == <<>>

Some(x) == <<x>>

unwrap_or(opt, default) == IF opt = None THEN default ELSE opt[1]

\* Result<T, Error>, and the panic that ends a call without a Result
Ok(value) == [kind |-> "Ok", value |-> value]

Err(message) == [kind |-> "Err", value |-> message]

Panic(message) == [kind |-> "Panic", value |-> message]

Apis == {"OpenGl", "OpenGlEs", "WebGl"}

\* (major, minor) version pairs
GlVersions == (1..MaxMajor) \X (0..MaxMinor)

\* an ordering that looks at the major number only
TupleLessMajor(v, w) == v[1] < w[1]

\* Rust's ordering of (u8, u8) tuples
TupleLess(v, w) == v[1] < w[1] \/ (v[1] = w[1] /\ v[2] < w[2])

Latest == [kind |-> "Latest", api |-> "None", version |-> <<0, 0>>,
           opengles_version |-> <<0, 0>>]

Specific(api, version) ==
    [kind |-> "Specific", api |-> api, version |-> version,
     opengles_version |-> <<0, 0>>]

GlThenGles(opengl_version, opengles_version) ==
    [kind |-> "GlThenGles", api |-> "None", version |-> opengl_version,
     opengles_version |-> opengles_version]

GL_CORE == Specific("OpenGl", <<3, 2>>)

\* the OpenGL ES version carried by the GlThenGles requests of the model
GlesVersion == <<2, 0>>

GlRequests ==
    {Latest}
    \cup {Specific(api, v) : api \in Apis, v \in GlVersions}
    \cup {GlThenGles(v, GlesVersion) : v \in GlVersions}

\* a to_gl_version that takes the version of every api
to_gl_version_any_api(version) ==
    IF version.kind = "Latest" THEN None ELSE Some(version.version)

\* "Extract the desktop GL version, if any."
to_gl_version(version) ==
    CASE version.kind = "Specific" /\ version.api = "OpenGl" ->
             Some(version.version)
      [] version.kind = "GlThenGles" -> Some(version.version)
      [] OTHER -> None

GlProfiles == {None, Some("Compatibility"), Some("Core")}

Robustness == {"NotRobust", "NoError", "RobustNoResetNotification",
               "TryRobustNoResetNotification", "RobustLoseContextOnReset",
               "TryRobustLoseContextOnReset"}

\* the two modes under which context creation must fail when unsupported
HardRobust == {"RobustNoResetNotification", "RobustLoseContextOnReset"}

GlAttributes(version, profile, robustness, debug) ==
    [version |-> version, profile |-> profile, robustness |-> robustness,
     debug |-> debug]

DefaultRequirements ==
    [hardware_accelerated |-> Some(TRUE), color_bits |-> Some(24),
     float_color_buffer |-> FALSE, alpha_bits |-> Some(8),
     depth_bits |-> Some(24), stencil_bits |-> Some(8),
     double_buffer |-> None, multisampling |-> None, stereoscopy |-> FALSE,
     srgb |-> TRUE, release_behavior |-> "Flush"]

\* requirements with every "don't care" field left open
DontCare ==
    [DefaultRequirements EXCEPT !.hardware_accelerated = None,
                                !.color_bits = None, !.alpha_bits = None,
                                !.depth_bits = None, !.stencil_bits = None]

\* the requests for buffers the model makes: nothing, a depth and an alpha
\* minimum only, and the default minimums
Demands == {DontCare,
            [DontCare EXCEPT !.depth_bits = Some(24), !.alpha_bits = Some(8)],
            DefaultRequirements}

ReleaseBehavior == {"Flush", "None"}

PixelFormatRequirements ==
    {[d EXCEPT !.srgb = srgb, !.stereoscopy = stereo,
               !.release_behavior = release] :
        d \in Demands, srgb \in BOOLEAN, stereo \in BOOLEAN,
        release \in ReleaseBehavior}

\* ------------------------------------------------------------------------
\* GL context negotiation on macOS (backend/mac/gl.rs)
\* ------------------------------------------------------------------------

NSOpenGLProfileVersionLegacy == "NSOpenGLProfileVersionLegacy"
NSOpenGLProfileVersion3_2Core == "NSOpenGLProfileVersion3_2Core"
NSOpenGLProfileVersion4_1Core == "NSOpenGLProfileVersion4_1Core"

\* the same profiles, oldest first
KnownProfilesOldestFirst == <<NSOpenGLProfileVersion3_2Core,
                              NSOpenGLProfileVersion4_1Core>>

\* the profiles the Latest path tries, in the order of its loop
KnownProfiles == <<NSOpenGLProfileVersion4_1Core,
                   NSOpenGLProfileVersion3_2Core>>

VersionNotSupported == "The requested OpenGL version is not supported."

NoPixelFormat == "Couldn't find any pixel format that matches the criteria."

\* the NSOpenGLPixelFormatAttribute values build_nsattributes and the Latest
\* path write into their lists
NSOpenGLPFADoubleBuffer == 5
NSOpenGLPFAColorSize == 8
NSOpenGLPFAAlphaSize == 11
NSOpenGLPFADepthSize == 12
NSOpenGLPFAStencilSize == 13
NSOpenGLPFASampleBuffers == 55
NSOpenGLPFASamples == 56
NSOpenGLPFAColorFloat == 58
NSOpenGLPFAMultisample == 59
NSOpenGLPFAAccelerated == 73
NSOpenGLPFAClosestPolicy == 74
NSOpenGLPFAAllowOfflineRenderers == 96
NSOpenGLPFAOpenGLProfile == 99

\* profile as u32
AsU32(profile) ==
    CASE profile = NSOpenGLProfileVersionLegacy -> 4096
      [] profile = NSOpenGLProfileVersion3_2Core -> 12800
      [] profile = NSOpenGLProfileVersion4_1Core -> 16640

\* let mut attributes: [u32; 6] = [0; 6]
ArraySlots == 6

\* the attribute array of the Latest path, the indices written so far and
\* whether a write was out of the array's bounds
NewArray ==
    [attributes |-> [i \in 0..(ArraySlots - 1) |-> 0], writes |-> <<>>,
     panicked |-> FALSE]

\* a store that writes one slot further
StoreNext(array, idx, value) ==
    IF idx + 1 \notin DOMAIN array.attributes
    THEN [array EXCEPT !.panicked = TRUE]
    ELSE [array EXCEPT !.attributes[idx + 1] = value,
                       !.writes = Append(@, idx + 1)]

\* attributes[idx] = value
Store(array, idx, value) ==
    IF idx \notin DOMAIN array.attributes
    THEN [array EXCEPT !.panicked = TRUE]
    ELSE [array EXCEPT !.attributes[idx] = value,
                       !.writes = Append(@, idx)]

\* the array and current_idx when the Latest path enters its loop
Header(pf_reqs) ==
    LET accelerated == pf_reqs.hardware_accelerated = Some(TRUE)
        double_buffer == pf_reqs.double_buffer # Some(FALSE)
        a1 == Store(NewArray, 0, NSOpenGLPFAAllowOfflineRenderers)
        i1 == 1
        a2 == IF accelerated THEN Store(a1, i1, NSOpenGLPFAAccelerated)
              ELSE a1
        i2 == IF accelerated THEN i1 + 1 ELSE i1
        a3 == IF double_buffer THEN Store(a2, i2, NSOpenGLPFADoubleBuffer)
              ELSE a2
        i3 == IF double_buffer THEN i2 + 1 ELSE i2
        a4 == Store(a3, i3, NSOpenGLPFAOpenGLProfile)
        i4 == i3 + 1
    IN  [array |-> a4, current_idx |-> i4]

\* the array handed to initWithAttributes for profile
Candidate(pf_reqs, profile) ==
    LET header == Header(pf_reqs)
    IN  Store(header.array, header.current_idx, AsU32(profile))

\* the loop of the Latest path from order[i] on: accepts are the profiles
\* for which initWithAttributes returns a pixel format, probes the candidate
\* lists handed to it
RECURSIVE ProbeFrom(_, _, _, _)
ProbeFrom(order, i, pf_reqs, accepts) ==
    IF i > Len(order)
    THEN [profile |-> NSOpenGLProfileVersionLegacy, probes |-> <<>>]
    ELSE IF order[i] \in accepts
         THEN [profile |-> order[i],
               probes |-> <<Candidate(pf_reqs, order[i])>>]
         ELSE LET rest == ProbeFrom(order, i + 1, pf_reqs, accepts)
              IN  [profile |-> rest.profile,
                   probes |-> <<Candidate(pf_reqs, order[i])>> \o rest.probes]

\* the profile get_gl_profile resolves and the probes it made on the way
Resolved(resolved, probes) == [result |-> resolved, probes |-> probes]

get_gl_profile(opengl, pf_reqs, accepts) ==
    LET version == to_gl_version(opengl.version)
        probe == ProbeFrom(KnownProfiles, 1, pf_reqs, accepts)
    IN  IF opengl.profile = Some("Compatibility")
        THEN IF TupleLess(unwrap_or(version, <<2, 1>>), <<3, 2>>)
             THEN Resolved(Ok(NSOpenGLProfileVersionLegacy), <<>>)
             ELSE Resolved(Err(VersionNotSupported), <<>>)
        ELSE IF version # None
        THEN LET v == version[1]
             IN  IF TupleLess(v, <<3, 2>>)
                 THEN IF opengl.profile = None /\ ~TupleLess(<<2, 1>>, v)
                      THEN Resolved(Ok(NSOpenGLProfileVersionLegacy), <<>>)
                      ELSE Resolved(Err(VersionNotSupported), <<>>)
                 ELSE IF v = <<3, 2>>
                      THEN Resolved(Ok(NSOpenGLProfileVersion3_2Core), <<>>)
                      ELSE Resolved(Ok(NSOpenGLProfileVersion4_1Core), <<>>)
        ELSE IF opengl.version.kind = "Latest"
        THEN IF \E i \in 1..Len(probe.probes) : probe.probes[i].panicked
             THEN Resolved(Panic("index out of bounds"), probe.probes)
             ELSE Resolved(Ok(probe.profile), probe.probes)
        ELSE Resolved(Err(VersionNotSupported), <<>>)

\* u8 + u8 in a build without overflow checks
WrappingAdd(a, b) == (a + b) % U8Range

\* the attribute list build_nsattributes returns. overflow_checks says
\* whether the build panics on an arithmetic overflow or wraps around
build_nsattributes(pf_reqs, profile, overflow_checks) ==
    LET alpha_depth == unwrap_or(pf_reqs.alpha_bits, 8)
        color_bits == unwrap_or(pf_reqs.color_bits, 24)
        color_depth == WrappingAdd(color_bits, alpha_depth)
        attributes ==
            <<NSOpenGLPFAOpenGLProfile, AsU32(profile),
              NSOpenGLPFAClosestPolicy,
              NSOpenGLPFAColorSize, color_depth,
              NSOpenGLPFAAlphaSize, alpha_depth,
              NSOpenGLPFADepthSize, unwrap_or(pf_reqs.depth_bits, 24),
              NSOpenGLPFAStencilSize, unwrap_or(pf_reqs.stencil_bits, 8),
              NSOpenGLPFAAllowOfflineRenderers>>
            \o (IF pf_reqs.hardware_accelerated = Some(TRUE)
                THEN <<NSOpenGLPFAAccelerated>> ELSE <<>>)
            \o (IF pf_reqs.double_buffer # Some(FALSE)
                THEN <<NSOpenGLPFADoubleBuffer>> ELSE <<>>)
        rest ==
            (IF pf_reqs.float_color_buffer
             THEN <<NSOpenGLPFAColorFloat>> ELSE <<>>)
            \o (IF pf_reqs.multisampling # None
                THEN <<NSOpenGLPFAMultisample, NSOpenGLPFASampleBuffers, 1,
                       NSOpenGLPFASamples, pf_reqs.multisampling[1]>>
                ELSE <<>>)
            \o <<0>>
    IN  IF overflow_checks /\ color_bits + alpha_depth >= U8Range
        THEN Panic("attempt to add with overflow")
        ELSE IF pf_reqs.release_behavior # "Flush"
        THEN Err(NoPixelFormat)
        ELSE IF pf_reqs.stereoscopy
        THEN Panic("not implemented")
        ELSE Ok(attributes \o rest)

\* what a negotiation did on the platform: the profiles probed, the pixel
\* format chosen (0 if none), whether a format was bound to the surface by
\* the call, the native context created ("none" if none)
Effects(probes, chosen, bound, context) ==
    [probes |-> probes, chosen |-> chosen, bound |-> bound,
     context |-> context]

NoEffects == Effects(<<>>, 0, FALSE, "none")

Outcome(returned, effects) == [result |-> returned, effects |-> effects]

\* create_gl_context: found says whether initWithAttributes finds a pixel
\* format, made whether initWithFormat gives a context, overflow_checks
\* whether the build checks its arithmetic
create_gl_context(pf_reqs, gl_attr, accepts, found, made, overflow_checks) ==
    LET gl_profile == get_gl_profile(gl_attr, pf_reqs, accepts)
        attributes == build_nsattributes(pf_reqs, gl_profile.result.value,
                                         overflow_checks)
        probed == Effects(gl_profile.probes, 0, FALSE, "none")
    IN  IF gl_attr.robustness \in HardRobust
        THEN Outcome(Err("You requested robustness, but it is not supported."),
                     NoEffects)
        ELSE IF gl_profile.result.kind # "Ok"
        THEN Outcome(gl_profile.result, probed)
        ELSE IF attributes.kind # "Ok"
        THEN Outcome(attributes, probed)
        ELSE IF ~found
        THEN Outcome(Err(NoPixelFormat), probed)
        ELSE IF ~made
        THEN Outcome(Err("could not open gl context"),
                     Effects(gl_profile.probes, 1, FALSE, "none"))
        ELSE Outcome(Ok("Context"),
                     Effects(gl_profile.probes, 1, FALSE, "not robust"))

\* ------------------------------------------------------------------------
\* GL context negotiation: the calls
\* ------------------------------------------------------------------------

Call(fn, pf_reqs, opengl, platform) ==
    [fn |-> fn, pf_reqs |-> pf_reqs, opengl |-> opengl, platform |-> platform]

DefaultAttributes == GlAttributes(Latest, None, "NotRobust", FALSE)

NoCall == Call("none", DefaultRequirements, DefaultAttributes, {})

InitGl ==
    /\ glPc = "idle"
    /\ glCall = NoCall
    /\ glResult = Ok("none")
    /\ glEffects = NoEffects

\* the call in glCall runs to its end
Returns(outcome) ==
    /\ glPc = "called"
    /\ glPc' = "returned"
    /\ glResult' = outcome.result
    /\ glEffects' = outcome.effects
    /\ UNCHANGED glCall
    /\ UNCHANGED <<idleVars, routerVars, wglVars, winVars, geoVars>>

\* the profiles NSOpenGLPixelFormat may accept on a Mac
MacPlatforms == SUBSET {KnownProfiles[i] : i \in 1..Len(KnownProfiles)}

\* the requirements asked of get_gl_profile: the demands above and every
\* combination of hardware_accelerated and double_buffer
ProbeRequirements ==
    Demands
    \cup {[DontCare EXCEPT !.hardware_accelerated = accelerated,
                           !.double_buffer = double_buffer] :
             accelerated \in {None, Some(TRUE), Some(FALSE)},
             double_buffer \in {None, Some(TRUE), Some(FALSE)}}

GetGlProfileCalls ==
    {Call("get_gl_profile", pf_reqs,
          GlAttributes(version, profile, "NotRobust", FALSE), accepts) :
        pf_reqs \in ProbeRequirements, version \in GlRequests,
        profile \in GlProfiles, accepts \in MacPlatforms}

CallGetGlProfile ==
    LET resolved == get_gl_profile(glCall.opengl, glCall.pf_reqs,
                                   glCall.platform)
    IN  /\ glCall.fn = "get_gl_profile"
        /\ Returns(Outcome(resolved.result,
                           Effects(resolved.probes, 0, FALSE, "none")))

\* the version requests made of create_gl_context
MacRequests == {Latest, GL_CORE, Specific("OpenGlEs", GlesVersion)}

\* accepts as above, found says whether initWithAttributes finds a pixel
\* format, made whether initWithFormat gives a context, overflow_checks
\* whether the build checks its arithmetic
MacPlatform(accepts, found, made, overflow_checks) ==
    [accepts |-> accepts, found |-> found, made |-> made,
     overflow_checks |-> overflow_checks]

CreateGlContextCalls ==
    {Call("create_gl_context", pf_reqs,
          GlAttributes(version, profile, robustness, FALSE),
          MacPlatform(accepts, found, made, overflow_checks)) :
        pf_reqs \in PixelFormatRequirements, version \in MacRequests,
        profile \in GlProfiles, robustness \in Robustness,
        accepts \in MacPlatforms, found \in BOOLEAN, made \in BOOLEAN,
        overflow_checks \in BOOLEAN}

CallCreateGlContext ==
    /\ glCall.fn = "create_gl_context"
    /\ Returns(create_gl_context(glCall.pf_reqs, glCall.opengl,
                                 glCall.platform.accepts,
                                 glCall.platform.found, glCall.platform.made,
                                 glCall.platform.overflow_checks))

\* the u8 sizes asked of build_nsattributes: the smallest, the defaults, the
\* largest and one between
U8Samples == {0, 8, 24, 128, U8Range - 1}

Depths == {None} \cup {Some(n) : n \in U8Samples}

BuildNsattributesCalls ==
    {Call("build_nsattributes",
          [d EXCEPT !.color_bits = color, !.alpha_bits = alpha],
          DefaultAttributes,
          [profile |-> profile, overflow_checks |-> overflow_checks]) :
        d \in {DontCare, DefaultRequirements},
        color \in Depths, alpha \in Depths,
        profile \in {NSOpenGLProfileVersionLegacy,
                     NSOpenGLProfileVersion4_1Core},
        overflow_checks \in BOOLEAN}

CallBuildNsattributes ==
    /\ glCall.fn = "build_nsattributes"
    /\ Returns(Outcome(build_nsattributes(glCall.pf_reqs,
                                          glCall.platform.profile,
                                          glCall.platform.overflow_checks),
                       NoEffects))

\* ------------------------------------------------------------------------
\* GL context negotiation on Windows (backend/windows/gl.rs)
\* ------------------------------------------------------------------------

\* the extension strings the negotiation looks for
WglExtensions == {"WGL_ARB_pixel_format", "WGL_ARB_create_context",
                  "WGL_ARB_create_context_robustness",
                  "WGL_ARB_context_flush_control", "WGL_ARB_framebuffer_sRGB"}

\* the extension strings create_context looks for
CreateExtensions == {"WGL_ARB_create_context",
                     "WGL_ARB_create_context_robustness",
                     "WGL_ARB_create_context_profile",
                     "WGL_EXT_create_context_es2_profile"}

\* extensions.split(' ').find(|&i| i == name).is_some()
Has(extensions, name) == name \in extensions

NoAvailablePixelFormat == "no avaible pixel format"

\* what the driver reports for pixel format id: the formats grow with the id
\* from a generic 16-bit format without alpha and stencil
PlatformFormat(id) ==
    [draw_to_window |-> TRUE, support_opengl |-> TRUE, rgba |-> TRUE,
     generic |-> id < 2,
     color_bits |-> 8 * (id + 1), alpha_bits |-> 8 * (id - 1),
     depth_bits |-> 8 * (id + 1), stencil_bits |-> 8 * (id - 1),
     stereo |-> id > 2, double_buffer |-> TRUE, samples |-> 0,
     srgb |-> id > 1]

PixelFormat(accelerated, output, multisampling, srgb) ==
    [hardware_accelerated |-> accelerated,
     color_bits |-> output.color_bits % U8Range,
     alpha_bits |-> output.alpha_bits % U8Range,
     depth_bits |-> output.depth_bits % U8Range,
     stencil_bits |-> output.stencil_bits % U8Range,
     stereoscopy |-> output.stereo,
     double_buffer |-> output.double_buffer,
     multisampling |-> multisampling,
     srgb |-> srgb]

\* pf_id is what ChoosePixelFormat answers, 0 when it finds nothing
choose_native_pixel_format_id(pf_reqs, pf_id) ==
    IF \/ pf_reqs.float_color_buffer
       \/ pf_reqs.multisampling \notin {None, Some(0)}
       \/ pf_reqs.stereoscopy
       \/ pf_reqs.srgb
       \/ pf_reqs.release_behavior # "Flush"
       \/ pf_id = 0
    THEN Err("()")
    ELSE Ok(pf_id)

choose_native_pixel_format(pf_reqs, pf_id) ==
    LET output == PlatformFormat(pf_id)
        pf_desc == PixelFormat(~output.generic, output, None, FALSE)
    IN  IF \/ ~output.draw_to_window
           \/ ~output.support_opengl
           \/ ~output.rgba
           \/ pf_desc.alpha_bits < unwrap_or(pf_reqs.alpha_bits, 0)
           \/ pf_desc.depth_bits < unwrap_or(pf_reqs.depth_bits, 0)
           \/ pf_desc.stencil_bits < unwrap_or(pf_reqs.stencil_bits, 0)
           \/ pf_desc.color_bits < unwrap_or(pf_reqs.color_bits, 0)
           \/ /\ pf_reqs.hardware_accelerated # None
              /\ pf_desc.hardware_accelerated # pf_reqs.hardware_accelerated[1]
           \/ /\ pf_reqs.double_buffer # None
              /\ pf_desc.double_buffer # pf_reqs.double_buffer[1]
        THEN Err("()")
        ELSE Ok(pf_desc)

\* the attribute list choose_arb_pixel_format_id hands to
\* ChoosePixelFormatARB; an attribute that is not listed is None
ArbDescriptor(extensions, pf_reqs) ==
    LET listsSrgb == \/ Has(extensions, "WGL_ARB_framebuffer_sRGB")
                     \/ Has(extensions, "WGL_EXT_framebuffer_sRGB")
    IN  IF \/ /\ pf_reqs.float_color_buffer
              /\ ~Has(extensions, "WGL_ARB_pixel_format_float")
           \/ /\ pf_reqs.multisampling # None
              /\ ~Has(extensions, "WGL_ARB_multisample")
           \/ ~listsSrgb /\ pf_reqs.srgb
        THEN Err("()")
        ELSE Ok([float |-> pf_reqs.float_color_buffer,
                 acceleration |-> pf_reqs.hardware_accelerated,
                 color_bits |-> pf_reqs.color_bits,
                 alpha_bits |-> pf_reqs.alpha_bits,
                 depth_bits |-> pf_reqs.depth_bits,
                 stencil_bits |-> pf_reqs.stencil_bits,
                 double_buffer |-> unwrap_or(pf_reqs.double_buffer, TRUE),
                 samples |-> pf_reqs.multisampling,
                 stereo |-> pf_reqs.stereoscopy,
                 srgb |-> IF listsSrgb THEN Some(pf_reqs.srgb) ELSE None,
                 release_behavior |->
                     IF /\ pf_reqs.release_behavior = "None"
                        /\ Has(extensions, "WGL_ARB_context_flush_control")
                     THEN Some("None") ELSE None])

\* WGL_ARB_pixel_format: the formats ChoosePixelFormatARB may answer with
\* meet the minimums of the list and equal its exact attributes
ArbMatches(descriptor, id) ==
    LET output == PlatformFormat(id)
    IN  /\ output.draw_to_window /\ output.support_opengl /\ output.rgba
        /\ ~descriptor.float
        /\ descriptor.acceleration # None
               => descriptor.acceleration[1] = ~output.generic
        /\ output.color_bits >= unwrap_or(descriptor.color_bits, 0)
        /\ output.alpha_bits >= unwrap_or(descriptor.alpha_bits, 0)
        /\ output.depth_bits >= unwrap_or(descriptor.depth_bits, 0)
        /\ output.stencil_bits >= unwrap_or(descriptor.stencil_bits, 0)
        /\ output.double_buffer = descriptor.double_buffer
        /\ output.stereo = descriptor.stereo
        /\ descriptor.samples # None => output.samples >= descriptor.samples[1]
        /\ descriptor.srgb # None => output.srgb = descriptor.srgb[1]

\* format_id is what ChoosePixelFormatARB answers, 0 when the call fails or
\* num_formats is 0
choose_arb_pixel_format_id(extensions, pf_reqs, format_id) ==
    IF ArbDescriptor(extensions, pf_reqs).kind # "Ok" \/ format_id = 0
    THEN Err("()")
    ELSE Ok(format_id)

choose_arb_pixel_format(extensions, format_id) ==
    LET output == PlatformFormat(format_id)
    IN  Ok(PixelFormat(
               ~output.generic, output,
               IF Has(extensions, "WGL_ARB_multisample") /\ output.samples # 0
               THEN Some(output.samples) ELSE None,
               IF \/ Has(extensions, "WGL_ARB_framebuffer_sRGB")
                  \/ Has(extensions, "WGL_EXT_framebuffer_sRGB")
               THEN output.srgb ELSE FALSE))

\* the attributes create_context hands to wglCreateContextAttribsARB
ContextAttributes(extensions, opengl) ==
    LET version == opengl.version
        robust == /\ Has(extensions, "WGL_ARB_create_context_robustness")
                  /\ opengl.robustness \notin {"NotRobust", "NoError"}
    IN  IF \/ /\ version.kind = "Specific"
              /\ version.api = "OpenGlEs"
              /\ ~Has(extensions, "WGL_EXT_create_context_es2_profile")
           \/ version.kind = "Specific" /\ version.api = "WebGl"
        THEN Err("OpenGL version not supported")
        ELSE IF /\ opengl.profile # None
                /\ ~Has(extensions, "WGL_ARB_create_context_profile")
        THEN Err("required extension \"WGL_ARB_create_context_profile\" not found")
        ELSE IF /\ ~Has(extensions, "WGL_ARB_create_context_robustness")
                /\ opengl.robustness \in HardRobust
        THEN Err("Robustness not supported")
        ELSE Ok([version |-> IF version.kind = "Latest"
                             THEN None ELSE Some(version.version),
                 es2_profile |-> version.kind = "Specific" /\ version.api = "OpenGlEs",
                 profile |-> opengl.profile,
                 robust_access |-> robust,
                 debug |-> opengl.debug])

\* made says whether the driver's creation call gives a context
create_context(extensions, opengl, made) ==
    LET attributes == ContextAttributes(extensions, opengl)
    IN  IF Has(extensions, "WGL_ARB_create_context")
        THEN IF attributes.kind # "Ok"
             THEN [result |-> attributes, context |-> "none"]
             ELSE IF ~made
             THEN [result |-> Err("wglCreateContextAttribsARB failed"),
                   context |-> "none"]
             ELSE [result |-> Ok("ContextWrapper"),
                   context |-> IF attributes.value.robust_access
                               THEN "robust" ELSE "not robust"]
        ELSE IF ~made
             THEN [result |-> Err("wglCreateContext failed"),
                   context |-> "none"]
             ELSE [result |-> Ok("ContextWrapper"), context |-> "not robust"]

\* Context::new from the extension list to the new context: bound is the
\* pixel format GetPixelFormat reports, picked the format the driver's
\* choice answers with, fails the driver call that fails, if any
ContextNegotiation(pf_reqs, opengl, extensions, bound, picked, fails) ==
    LET use_arb_for_pixel_format == Has(extensions, "WGL_ARB_pixel_format")
        id == IF use_arb_for_pixel_format
              THEN choose_arb_pixel_format_id(extensions, pf_reqs, picked)
              ELSE choose_native_pixel_format_id(pf_reqs, picked)
        pixel_format_id == IF bound = 0 THEN id.value ELSE bound
        pixel_format ==
            IF use_arb_for_pixel_format
            THEN choose_arb_pixel_format(extensions, pixel_format_id)
            ELSE choose_native_pixel_format(pf_reqs, pixel_format_id)
        context == create_context(extensions, opengl,
                                  fails # "CreateContext")
        done == Effects(<<>>, IF bound = 0 THEN id.value ELSE 0, bound = 0,
                        "none")
    IN  IF bound = 0 /\ id.kind # "Ok"
        THEN Outcome(Err(NoAvailablePixelFormat), NoEffects)
        ELSE IF bound = 0 /\ fails = "SetPixelFormat"
        THEN Outcome(Err("SetPixelFormat function failed"),
                     Effects(<<>>, id.value, FALSE, "none"))
        ELSE IF pixel_format.kind # "Ok"
        THEN Outcome(Err(NoAvailablePixelFormat), done)
        ELSE IF context.result.kind # "Ok"
        THEN Outcome(context.result, done)
        ELSE Outcome(Ok(pixel_format.value),
                     [done EXCEPT !.context = context.context])

\* the driver, the surface and the driver's answers of one Context::new
WglPlatform(extensions, bound, picked, fails) ==
    [extensions |-> extensions, bound |-> bound, picked |-> picked,
     fails |-> fails]

DriverFailures == {"none", "SetPixelFormat", "CreateContext"}

\* ChoosePixelFormat may answer with any format; ChoosePixelFormatARB
\* answers within its list; no choice is made for a surface with a format
Answers(pf_reqs, platform) ==
    LET descriptor == ArbDescriptor(platform.extensions, pf_reqs)
    IN  /\ platform.bound # 0 => platform.picked = 0
        /\ /\ Has(platform.extensions, "WGL_ARB_pixel_format")
           /\ platform.picked # 0
           => /\ descriptor.kind = "Ok"
              /\ ArbMatches(descriptor.value, platform.picked)

ContextNewCalls ==
    {call \in {Call("Context::new", pf_reqs,
                    GlAttributes(Latest, None, robustness, FALSE),
                    WglPlatform(extensions, bound, picked, fails)) :
                   pf_reqs \in PixelFormatRequirements,
                   robustness \in Robustness,
                   extensions \in SUBSET WglExtensions,
                   bound \in {0} \cup Formats,
                   picked \in {0} \cup Formats,
                   fails \in DriverFailures} :
        Answers(call.pf_reqs, call.platform)}

CallContextNew ==
    /\ glCall.fn = "Context::new"
    /\ Returns(ContextNegotiation(glCall.pf_reqs, glCall.opengl,
                                  glCall.platform.extensions,
                                  glCall.platform.bound,
                                  glCall.platform.picked,
                                  glCall.platform.fails))

\* the version requests made of create_context
WglRequests == {Latest, GL_CORE, Specific("OpenGlEs", GlesVersion),
                Specific("WebGl", GlesVersion),
                GlThenGles(<<3, 2>>, GlesVersion)}

CreateContextCalls ==
    {Call("create_context", DefaultRequirements,
          GlAttributes(version, profile, robustness, debug),
          [extensions |-> extensions, made |-> made]) :
        version \in WglRequests, profile \in GlProfiles,
        robustness \in Robustness, debug \in BOOLEAN,
        extensions \in SUBSET CreateExtensions, made \in BOOLEAN}

CallCreateContext ==
    LET context == create_context(glCall.platform.extensions, glCall.opengl,
                                  glCall.platform.made)
    IN  /\ glCall.fn = "create_context"
        /\ Returns(Outcome(context.result,
                           Effects(<<>>, 0, FALSE, context.context)))

\* a call of one of the four functions has been made
InitGlCall ==
    /\ glPc = "called"
    /\ \/ glCall \in GetGlProfileCalls
       \/ glCall \in CreateGlContextCalls
       \/ glCall \in BuildNsattributesCalls
       \/ glCall \in ContextNewCalls
       \/ glCall \in CreateContextCalls
    /\ glResult = Ok("none")
    /\ glEffects = NoEffects

NextGl ==
    \/ CallGetGlProfile
    \/ CallCreateGlContext
    \/ CallBuildNsattributes
    \/ CallContextNew
    \/ CallCreateContext

\* ------------------------------------------------------------------------
\* Window geometry (backend/mac/window.rs)
\* ------------------------------------------------------------------------

Point(x, y) == [x |-> x, y |-> y]

Size(width, height) == [width |-> width, height |-> height]

NSRect(x, y, width, height) ==
    [x |-> x, y |-> y, width |-> width, height |-> height]

\* the positions a handle is asked for and a parent is at
Points == {Point(x, y) : x \in 0..MaxCoord, y \in 0..MaxCoord} \ {Point(MaxCoord, 0)}

\* the sizes a handle is asked for and a window is given
Extents == {Size(w, h) : w \in 1..MaxExtent, h \in 1..MaxExtent} \ {Size(1, MaxExtent)}

\* IdleKind::DeferredOp(DeferredOp::SetSize(size)); id is the number of the
\* push that brought the item, nested tells that the push was made inside a
\* handler callback
SetSize(id, size) ==
    [id |-> id, kind |-> "DeferredOp", op |-> "SetSize", size |-> size,
     position |-> Point(0, 0), asked |-> Point(0, 0), parent |-> None,
     nested |-> FALSE]

\* IdleKind::DeferredOp(DeferredOp::SetPosition(position)); asked and parent
\* are the argument of the call and the parent's position at the call
SetPosition(id, position, asked, parent) ==
    [id |-> id, kind |-> "DeferredOp", op |-> "SetPosition", size |-> Size(0, 0),
     position |-> position, asked |-> asked, parent |-> parent,
     nested |-> FALSE]

\* IdleKind::Token(token)
Token(id) ==
    [id |-> id, kind |-> "Token", op |-> "none", size |-> Size(0, 0),
     position |-> Point(0, 0), asked |-> Point(0, 0), parent |-> None,
     nested |-> FALSE]

\* what the handler does with the handle inside a callback
Reactions ==
    {[call |-> "none", size |-> Size(0, 0), position |-> Point(0, 0)]}
    \cup {[call |-> "set_size", size |-> size, position |-> Point(0, 0)] :
            size \in Extents}
    \cup {[call |-> "set_position", size |-> Size(0, 0), position |-> pos] :
            pos \in Points}

\* the renderer after set_size(size * scale) and set_scale(scale)
Renderer(size, scale) ==
    [size |-> Size(size.width * scale, size.height * scale), scale |-> scale]

\* NSView::frame(view).size: the view fills the window
ViewSize == Size(frame.width, frame.height)

InitGeo ==
    /\ geoLife = "unbuilt"
    /\ frame = NSRect(0, 0, 1, 1)
    /\ parentPos = None
    /\ backingScale = 1
    /\ backingNoted = TRUE
    /\ geoRenderer = Renderer(Size(0, 0), 0)
    /\ geoQueue = <<>>
    /\ geoTaken = <<>>
    /\ geoOps = 0
    /\ geoNotes = 0
    /\ geoExecuted = <<>>
    /\ sought = None

\* a set_position_deferred that leaves the window height out of the flip
set_position_deferred_unflipped(current_frame, position) ==
    [current_frame EXCEPT !.x = position.x,
                          !.y = ScreenHeight - position.y]

\* set_position_deferred: the new frame of the window
set_position_deferred(current_frame, position) ==
    [current_frame EXCEPT !.x = position.x,
                          !.y = ScreenHeight - position.y
                                - current_frame.height]

\* set_size_deferred: the new frame of the window, its top left corner kept
set_size_deferred(current_frame, size) ==
    [current_frame EXCEPT !.y = @ - (size.height - current_frame.height),
                          !.width = size.width,
                          !.height = size.height]

\* WindowHandle::get_position
get_position(current_frame, parent) ==
    LET position == Point(current_frame.x,
                          ScreenHeight - current_frame.y
                          - current_frame.height)
    IN  IF parent = None THEN position
        ELSE Point(position.x - parent[1].x, position.y - parent[1].y)

\* WindowHandle::set_position: the position handed to defer
set_position_absolute(position, parent) ==
    IF parent = None THEN position
    ELSE Point(position.x + parent[1].x, position.y + parent[1].y)

\* a set_frame_size that gives the renderer the logical size of the view
set_frame_size_unscaled(size, scale) == [size |-> size, scale |-> scale]

\* set_frame_size: what the renderer is given for the new size of the view
set_frame_size_renderer(size, scale) == Renderer(size, scale)

\* WindowBuilder::build for a window of the given content size and position,
\* on a screen of the given scale, with or without a parent
GeoBuild(size, position, scale, parent) ==
    /\ geoLife = "unbuilt"
    /\ geoLife' = "open"
    /\ frame' = NSRect(position.x, ScreenHeight - position.y - size.height,
                       size.width, size.height)
    /\ parentPos' = parent
    /\ backingScale' = scale
    /\ geoRenderer' = Renderer(size, scale)
    /\ UNCHANGED <<backingNoted, geoIdle, geoOps, geoNotes, geoExecuted,
                   sought>>
    /\ UNCHANGED <<idleVars, routerVars, wglVars, winVars, glVars>>

\* one more call on the handle of the window, whose view exists
GeoCalled ==
    /\ geoLife \in {"open", "closed"}
    /\ geoOps < MaxGeoOps
    /\ geoOps' = geoOps + 1

\* what the history keeps of an executed item
Executed(item) == [id |-> item.id, nested |-> item.nested]

\* an add_idle that puts the item in front of the queue
GeoAddIdleFirst(q, item) == <<item>> \o q

\* IdleHandle::add_idle: the item goes to the end of the queue
GeoAddIdle(q, item) == Append(q, item)

\* the queue after the handler's reaction to a callback
React(q, reaction) ==
    CASE reaction.call = "set_size" ->
             GeoAddIdle(q, [SetSize(geoOps + 1, reaction.size)
                               EXCEPT !.nested = TRUE])
      [] reaction.call = "set_position" ->
             GeoAddIdle(q, [SetPosition(geoOps + 1,
                                set_position_absolute(reaction.position,
                                                      parentPos),
                                reaction.position, parentPos)
                               EXCEPT !.nested = TRUE])
      [] OTHER -> q

\* WindowHandle::set_size, called from the run loop
HandleSetSize(size) ==
    /\ GeoCalled
    /\ geoTaken = <<>>
    /\ geoQueue' = GeoAddIdle(geoQueue, SetSize(geoOps + 1, size))
    /\ UNCHANGED <<geoLife, geoWindow, geoTaken, geoNotes, geoExecuted,
                   sought>>
    /\ UNCHANGED <<idleVars, routerVars, wglVars, winVars, glVars>>

\* WindowHandle::set_position, called from the run loop
HandleSetPosition(position) ==
    /\ GeoCalled
    /\ geoTaken = <<>>
    /\ geoQueue' = GeoAddIdle(geoQueue, SetPosition(geoOps + 1,
                       set_position_absolute(position, parentPos),
                       position, parentPos))
    /\ UNCHANGED <<geoLife, geoWindow, geoTaken, geoNotes, geoExecuted,
                   sought>>
    /\ UNCHANGED <<idleVars, routerVars, wglVars, winVars, glVars>>

\* IdleHandle::add_idle_token, called from the run loop
GeoAddIdleToken ==
    /\ GeoCalled
    /\ geoTaken = <<>>
    /\ geoQueue' = GeoAddIdle(geoQueue, Token(geoOps + 1))
    /\ UNCHANGED <<geoLife, geoWindow, geoTaken, geoNotes, geoExecuted,
                   sought>>
    /\ UNCHANGED <<idleVars, routerVars, wglVars, winVars, glVars>>

\* run_idle: mem::take of the queue, when the runIdle selector is performed
GeoRunIdleTake ==
    /\ geoLife \in {"open", "closed"}
    /\ geoTaken = <<>>
    /\ geoQueue # <<>>
    /\ geoTaken' = geoQueue
    /\ geoQueue' = <<>>
    /\ UNCHANGED <<geoLife, geoWindow, geoOps, geoNotes, geoExecuted, sought>>
    /\ UNCHANGED <<idleVars, routerVars, wglVars, winVars, glVars>>

\* run_idle: run_deferred for the next item. setFrame:display: resizes the
\* view, whose setFrameSize: is set_frame_size
GeoRunDeferred ==
    /\ geoTaken # <<>>
    /\ Head(geoTaken).kind = "DeferredOp"
    /\ LET item == Head(geoTaken)
           new_frame == IF item.op = "SetSize"
                        THEN set_size_deferred(frame, item.size)
                        ELSE set_position_deferred(frame, item.position)
       IN  /\ frame' = new_frame
           /\ geoRenderer' =
                  IF Size(new_frame.width, new_frame.height) # ViewSize
                  THEN set_frame_size_renderer(
                           Size(new_frame.width, new_frame.height),
                           backingScale)
                  ELSE geoRenderer
           /\ sought' = IF item.op = "SetPosition" /\ item.parent = parentPos
                        THEN Some(item.asked)
                        ELSE None
    /\ geoTaken' = Tail(geoTaken)
    /\ geoExecuted' = Append(geoExecuted, Executed(Head(geoTaken)))
    /\ UNCHANGED <<geoLife, parentPos, backingScale, backingNoted, geoQueue,
                   geoOps, geoNotes>>
    /\ UNCHANGED <<idleVars, routerVars, wglVars, winVars, glVars>>

\* run_idle: handler.idle(token) for the next item; the handler may call
\* set_size or set_position on its handle before it returns
GeoIdleToken(reaction) ==
    /\ geoTaken # <<>>
    /\ Head(geoTaken).kind = "Token"
    /\ reaction.call # "none" => geoOps < MaxGeoOps
    /\ geoOps' = IF reaction.call # "none" THEN geoOps + 1 ELSE geoOps
    /\ geoQueue' = React(geoQueue, reaction)
    /\ geoTaken' = Tail(geoTaken)
    /\ geoExecuted' = Append(geoExecuted, Executed(Head(geoTaken)))
    /\ UNCHANGED <<geoLife, geoWindow, geoNotes, sought>>
    /\ UNCHANGED <<idleVars, routerVars, wglVars, winVars, glVars>>

\* one more change made by the platform, between two callbacks
GeoNotified ==
    /\ geoLife = "open"
    /\ geoTaken = <<>>
    /\ geoNotes < MaxGeoNotes
    /\ geoNotes' = geoNotes + 1

\* the user resizes the window, its top left corner stays: AppKit sends
\* setFrameSize: to the view, which is set_frame_size
GeoSetFrameSize(size) ==
    /\ GeoNotified
    /\ size # ViewSize
    /\ frame' = set_size_deferred(frame, size)
    /\ geoRenderer' = set_frame_size_renderer(size, backingScale)
    /\ sought' = IF size.height = frame.height THEN sought ELSE None
    /\ UNCHANGED <<geoLife, parentPos, backingScale, backingNoted, geoIdle,
                   geoOps, geoExecuted>>
    /\ UNCHANGED <<idleVars, routerVars, wglVars, winVars, glVars>>

\* the parent window is moved
ParentMoves(position) ==
    /\ GeoNotified
    /\ parentPos # None
    /\ parentPos # Some(position)
    /\ parentPos' = Some(position)
    /\ sought' = None
    /\ UNCHANGED <<geoLife, frame, backingScale, backingNoted, geoRenderer,
                   geoIdle, geoOps, geoExecuted>>
    /\ UNCHANGED <<idleVars, routerVars, wglVars, winVars, glVars>>

\* the window comes to a screen of another scale; AppKit will send
\* windowDidChangeBackingProperties: to the delegate
ScreenChanges(scale) ==
    /\ GeoNotified
    /\ backingNoted
    /\ scale # backingScale
    /\ backingScale' = scale
    /\ backingNoted' = FALSE
    /\ UNCHANGED <<geoLife, frame, parentPos, geoRenderer, geoIdle, geoOps,
                   geoHist>>
    /\ UNCHANGED <<idleVars, routerVars, wglVars, winVars, glVars>>

\* window_did_change_backing_properties
window_did_change_backing_properties ==
    /\ geoLife = "open"
    /\ geoTaken = <<>>
    /\ ~backingNoted
    /\ backingNoted' = TRUE
    /\ geoRenderer' = Renderer(ViewSize, backingScale)
    /\ UNCHANGED <<geoLife, frame, parentPos, backingScale, geoIdle, geoOps,
                   geoNotes, geoExecuted, sought>>
    /\ UNCHANGED <<idleVars, routerVars, wglVars, winVars, glVars>>

\* window_will_close: handler.destroy()
GeoWindowWillClose ==
    /\ geoLife = "open"
    /\ geoTaken = <<>>
    /\ geoLife' = "closed"
    /\ UNCHANGED <<geoWindow, geoIdle, geoOps, geoNotes, geoExecuted, sought>>
    /\ UNCHANGED <<idleVars, routerVars, wglVars, winVars, glVars>>

\* dealloc of the view: the view state and its idle queue are dropped
GeoDealloc ==
    /\ geoLife = "closed"
    /\ geoTaken = <<>>
    /\ geoLife' = "gone"
    /\ geoQueue' = <<>>
    /\ UNCHANGED <<geoWindow, geoTaken, geoOps, geoNotes, geoExecuted, sought>>
    /\ UNCHANGED <<idleVars, routerVars, wglVars, winVars, glVars>>

NextFrame ==
    \/ \E size \in Extents, position \in Points, scale \in Scales,
          parent \in {None} \cup {Some(pos) : pos \in Points} :
            GeoBuild(size, position, scale, parent)
    \/ \E size \in Extents : HandleSetSize(size)
    \/ \E position \in Points : HandleSetPosition(position)
    \/ GeoAddIdleToken
    \/ GeoRunIdleTake
    \/ GeoRunDeferred
    \/ \E reaction \in Reactions : GeoIdleToken(reaction)
    \/ \E size \in Extents : GeoSetFrameSize(size)
    \/ \E position \in Points : ParentMoves(position)
    \/ \E scale \in Scales : ScreenChanges(scale)
    \/ window_did_change_backing_properties
    \/ GeoWindowWillClose
    \/ GeoDealloc

\* ------------------------------------------------------------------------
\* Scroll deltas (backend/mac/window.rs, scroll_wheel)
\* ------------------------------------------------------------------------

\* the factor of a wheel that reports lines, not points
LineScale == 32

\* NSEvent scrollingDeltaX and scrollingDeltaY
Deltas == -MaxDelta..MaxDelta

\* a wheel_delta that scales the vertical axis only
wheel_delta_vertical(deltaX, deltaY, precise) ==
    IF precise THEN Point(-deltaX, -deltaY)
    ELSE Point(-deltaX, (-deltaY) * LineScale)

\* scroll_wheel: the wheel_delta of the event given to handler.wheel
wheel_delta(deltaX, deltaY, precise) ==
    LET dx == -deltaX
        dy == -deltaY
    IN  IF precise THEN Point(dx, dy)
        ELSE Point(dx * LineScale, dy * LineScale)

ScrollWheelCalls ==
    {Call("scroll_wheel", DefaultRequirements, DefaultAttributes,
          [deltaX |-> deltaX, deltaY |-> deltaY, precise |-> precise]) :
        deltaX \in Deltas, deltaY \in Deltas, precise \in BOOLEAN}

InitScroll ==
    /\ glPc = "called"
    /\ glCall \in ScrollWheelCalls
    /\ glResult = Ok("none")
    /\ glEffects = NoEffects

CallScrollWheel ==
    /\ glCall.fn = "scroll_wheel"
    /\ Returns(Outcome(Ok(wheel_delta(glCall.platform.deltaX,
                                      glCall.platform.deltaY,
                                      glCall.platform.precise)),
                       NoEffects))

NextScroll == CallScrollWheel

\* ------------------------------------------------------------------------
\* Text input lock (backend/mac/window.rs)
\* ------------------------------------------------------------------------

\* text_input::Event
TextEvents == {"LayoutChanged", "Reset", "SelectionChanged"}

\* a call on the window that concerns a text field
TextCall(fn, token, update, mutable) ==
    [fn |-> fn, token |-> token, update |-> update, mutable |-> mutable]

TextCalls ==
    {TextCall("set_focused_text_field", token, "Reset", TRUE) :
        token \in TextFields}
    \cup {TextCall("update_text_field", token, update, TRUE) :
            token \in TextFields \ {"None"}, update \in TextEvents}
    \cup {TextCall("with_edit_lock_from_window", "None", "Reset", mutable) :
            mutable \in BOOLEAN}

\* the sequences of exactly n calls
RECURSIVE TextCallSeqs(_)
TextCallSeqs(n) ==
    IF n = 0 THEN {<<>>}
    ELSE {Append(calls, call) : calls \in TextCallSeqs(n - 1),
                                call \in TextCalls}

\* a callback of the lock on the handler
LockCallback(cb, token, mutable) ==
    [cb |-> cb, token |-> token, mutable |-> mutable]

\* handler.acquire_input_lock(token, mutable), then
\* handler.release_input_lock(token)
Locked(token, mutable) ==
    <<LockCallback("acquire_input_lock", token, mutable),
      LockCallback("release_input_lock", token, mutable)>>

\* the text fields of the view: the active field, the lock callbacks the
\* handler has received and the number of calls made
TextState(active, log, done) ==
    [active |-> active, log |-> log, done |-> done]

\* an update_text_field that does not compare the token with the active
\* field
update_text_field_any(active, token, update) ==
    IF update = "LayoutChanged" THEN <<>>
    ELSE Locked(token, TRUE)

\* update_text_field: the lock callbacks it makes
update_text_field_locks(active, token, update) ==
    IF active # token \/ token = "None" THEN <<>>
    ELSE IF update = "LayoutChanged" THEN <<>>
    ELSE Locked(token, TRUE)

\* with_edit_lock_from_window: the lock callbacks it makes
with_edit_lock_from_window(active, mutable) ==
    IF active = "None" THEN <<>>
    ELSE Locked(active, mutable)

InitText ==
    /\ glPc = "called"
    /\ glCall \in {Call("text_input", DefaultRequirements, DefaultAttributes,
                         [calls |-> calls]) :
                        calls \in TextCallSeqs(MaxTextCalls)}
    /\ glResult = Ok(TextState("None", <<>>, 0))
    /\ glEffects = NoEffects

\* the call that comes next
NextTextCall == glCall.platform.calls[glResult.value.done + 1]

TextCallIs(fn) ==
    /\ glCall.fn = "text_input"
    /\ glPc = "called"
    /\ glResult.value.done < Len(glCall.platform.calls)
    /\ NextTextCall.fn = fn

\* the call has been made and left the view with this active field and
\* these further callbacks
TextCallDone(active, callbacks) ==
    /\ glResult' = Ok(TextState(active, glResult.value.log \o callbacks,
                                glResult.value.done + 1))
    /\ UNCHANGED <<glPc, glCall, glEffects>>
    /\ UNCHANGED <<idleVars, routerVars, wglVars, winVars, geoVars>>

\* WindowHandle::set_focused_text_field on a live view
CallSetFocusedTextField ==
    /\ TextCallIs("set_focused_text_field")
    /\ LET old_field == glResult.value.active
           active_field == NextTextCall.token
       IN  TextCallDone(active_field,
               update_text_field_locks(old_field, old_field, "Reset")
               \o update_text_field_locks(active_field, active_field,
                                          "Reset"))

\* WindowHandle::update_text_field on a live view
CallUpdateTextField ==
    /\ TextCallIs("update_text_field")
    /\ TextCallDone(glResult.value.active,
                    update_text_field_locks(glResult.value.active,
                                            NextTextCall.token,
                                            NextTextCall.update))

\* with_edit_lock_from_window, called by a method of NSTextInputClient
CallWithEditLock ==
    /\ TextCallIs("with_edit_lock_from_window")
    /\ TextCallDone(glResult.value.active,
                    with_edit_lock_from_window(glResult.value.active,
                                               NextTextCall.mutable))

NextText ==
    \/ CallSetFocusedTextField
    \/ CallUpdateTextField
    \/ CallWithEditLock

\* ------------------------------------------------------------------------
\* Specifications
\* ------------------------------------------------------------------------

\* a view as make_view builds it, on a platform without WGL extensions
InitView ==
    InitIdle /\ InitRouter /\ WglAt({}, 0) /\ InitWin /\ InitGl /\ InitGeo

\* the same view, with the driver and the window's pixel format left open
InitWindow ==
    InitIdle /\ InitRouter /\ InitWgl /\ InitWin /\ InitGl /\ InitGeo

SpecIdle == InitView /\ [][NextIdle]_vars

\* the run loop performs a pending runIdle selector and run_idle runs to its
\* end; a thread inside add_idle gets the mutex and leaves
FairIdle ==
    /\ WF_vars(RunIdleEnter)
    /\ WF_vars(RunIdleLock)
    /\ WF_vars(RunIdleTake)
    /\ WF_vars(RunIdleExecBegin)
    /\ WF_vars(RunIdleExecEnd)
    /\ WF_vars(RunIdleReturn)
    /\ \A t \in Threads : WF_vars(AddIdleLock(t)) /\ WF_vars(AddIdlePush(t))

SpecIdleFair == InitView /\ [][NextIdle]_vars /\ FairIdle

SpecRouter == InitView /\ [][NextRouter]_vars

SpecInput == InitView /\ [][NextInput]_vars

SpecWindow == InitView /\ [][NextWindow]_vars

SpecWgl == InitWindow /\ [][NextWgl]_vars

\* the same view, and a negotiation call with its arguments
InitNegotiation ==
    InitIdle /\ InitRouter /\ WglAt({}, 0) /\ InitWin /\ InitGlCall
    /\ InitGeo

SpecGl == InitNegotiation /\ [][NextGl]_vars

SpecFrame == InitView /\ [][NextFrame]_vars

InitWheel ==
    InitIdle /\ InitRouter /\ WglAt({}, 0) /\ InitWin /\ InitScroll
    /\ InitGeo

SpecScroll == InitWheel /\ [][NextScroll]_vars

InitTextInput ==
    InitIdle /\ InitRouter /\ WglAt({}, 0) /\ InitWin /\ InitText
    /\ InitGeo

SpecText == InitTextInput /\ [][NextText]_vars

\* ------------------------------------------------------------------------
\* Idle queue: properties
\* ------------------------------------------------------------------------

ItemIds(s) == [i \in 1..Len(s) |-> s[i].id]

\* the ids of the item in execution, if any
CurrentIds == IF uiPc = "exec" THEN <<current.id>> ELSE <<>>

\* C1: idle items are executed in the order in which their pushes
\* completed: the executed items, followed by the one in execution, are a
\* prefix of the push order, across drains and whatever the kinds.
C1_FifoOrder ==
    LET done == executed \o CurrentIds
    IN  /\ Len(done) <= Len(pushOrder)
        /\ \A i \in 1..Len(done) :
              i <= Len(pushOrder) => done[i] = pushOrder[i]

\* two items pushed by background threads were executed by one drain and
\* a deferred operation, pushed later, is in execution in a later drain
C1_Witness ==
    /\ Len(executed) >= 2
    /\ execEpochs[1] = execEpochs[2]
    /\ executed[1][1] \in Producers
    /\ executed[2][1] \in Producers
    /\ uiPc = "exec"
    /\ drains > execEpochs[2]
    /\ current.kind = "DeferredOp"

\* the step completes a push
Pushed == Len(pushOrder') = Len(pushOrder) + 1

\* C2 as stated: a push schedules a wake if and only if the queue was
\* empty immediately before it, and at most one wake is pending.
C2_WakeIffEmpty ==
    /\ [][Pushed => ((wakes' = wakes + 1) <=> (queue = <<>>))]_vars
    /\ [](wakes <= 1)

\* C2 amended: a push schedules a wake if and only if the queue was empty
\* immediately before it and the view still exists (the selector sent to a
\* nil view schedules nothing); no other step schedules a wake, and at
\* most one wake is pending in every reachable state.
C2_WakeIffEmptyAndViewAlive ==
    /\ [][/\ Pushed =>
              ((wakes' = wakes + 1) <=> (queue = <<>> /\ viewAlive))
          /\ ~Pushed => wakes' <= wakes]_vars
    /\ [](wakes <= 1)

\* several pushes were made and a single wake is pending
C2_Witness ==
    /\ wakes = 1
    /\ Len(queue) >= 2
    /\ viewAlive

\* positions of pushOrder pushed before the first swap
FirstPushes == {i \in 1..Len(pushOrder) : pushEpochs[i] = 0}

\* positions of executed that the first drain executed
FirstDrain == {i \in 1..Len(executed) : execEpochs[i] = 1}

C4_SwapLosesNothing ==
    /\ \A i \in 1..Len(executed) :
          LET k == IndexOf(pushOrder, executed[i])
          IN  /\ k > 0
              /\ execEpochs[i] = pushEpochs[k] + 1
    /\ NoDup(executed)
    /\ executed \o CurrentIds \o ItemIds(taken) \o ItemIds(queue) = pushOrder

\* an item pushed after the first swap was executed by the second drain,
\* and a third item, pushed while the second drain ran, waits in the queue
C4_Witness ==
    /\ Len(executed) >= 2
    /\ execEpochs[1] = 1
    /\ pushEpochs[2] = 1
    /\ execEpochs[2] = 2
    /\ uiPc = "loop"
    /\ queue # <<>>

\* C5: run_idle holds the mutex for the swap only: while the loop runs
\* the mutex is free or held by a push, and whoever holds the mutex is at
\* a step that releases it without waiting for anything, so a push from
\* a background thread and a push from the executing item both complete.
C5_MutexOnlyForSwap ==
    /\ uiPc \in {"loop", "exec"} => (mutex = UI => pc[UI] = "locked")
    /\ mutex # Free =>
          \/ mutex = UI /\ uiPc = "swap" /\ ENABLED RunIdleTake
          \/ pc[mutex] = "locked" /\ ENABLED AddIdlePush(mutex)
    /\ \A t \in Threads :
          (pc[t] = "upgraded" /\ mutex = Free) => ENABLED AddIdleLock(t)

\* an item is executing, its own push holds the mutex and a background
\* thread is about to take it
C5_Witness ==
    /\ uiPc = "exec"
    /\ pc[UI] = "locked"
    /\ mutex = UI
    /\ \E p \in Producers : pc[p] = "upgraded"

\* C6: once the Weak reference to the queue no longer upgrades, a push
\* (callback, token or deferred set_size/set_position) stores no item,
\* schedules no wake and its item is never queued or executed.
C6_DeadPushIsNoOp ==
    /\ [](\A it \in deadPushes :
            /\ it.id \notin SeqToSet(pushOrder)
            /\ \A t \in Threads : cur[t].id # it.id)
    /\ [][deadPushes' # deadPushes =>
            UNCHANGED <<viewAlive, queueVars, callVars, drainVars,
                        pushHist, execHist, drains>>]_vars

\* a callback, a token and a deferred operation were pushed after the
\* queue was gone
C6_Witness ==
    /\ ~QueueStrong
    /\ {it.kind : it \in deadPushes} = IdleKind

\* ------------------------------------------------------------------------
\* WGL context creation: properties
\* ------------------------------------------------------------------------

\* C7: on every exit path of Context::new (Ok, Err from any step, a failed
\* make-current and a failed swap-interval call included) the (HDC, HGLRC)
\* pair current on the calling thread when the call returns is the pair
\* that was current when the call was entered.
C7_CurrentPairRestored == wglPc = "returned" => curCtx = entryCur

\* C8: over any sequence of Context::new calls on the same window a pixel
\* format is written to the window's HDC at most once; SetPixelFormat is
\* called only when GetPixelFormat reported 0, each write binds a format to
\* an HDC that had none, and an HDC with a format is never written again.
C8_PixelFormatWrittenOnce ==
    /\ [](spfWrites <= 1 /\ ~spfOnBound)
    /\ [][/\ spfWrites' # spfWrites => (surfaceFormat = 0 /\ surfaceFormat' # 0)
          /\ surfaceFormat # 0 => surfaceFormat' = surfaceFormat]_vars

\* the first call bound a format and returned a context; the second call on
\* the same window has passed the GetPixelFormat check without writing
C8_Witness ==
    /\ nCalls = 2
    /\ contexts = 1
    /\ spfWrites = 1
    /\ wglPc = "choose_pixel_format"

\* C18: when Context::new fails, nothing of the failed attempt is left: the
\* window's surface has the pixel format it had on entry, and no dummy
\* window, dummy context or new context exists.
C18_FailureLeavesNothing ==
    (wglPc = "returned" /\ result = "Err") =>
        /\ surfaceFormat = entryFormat
        /\ dummyWindows = 0
        /\ ~dummyCtx
        /\ ~newCtx

\* ------------------------------------------------------------------------
\* Mouse event router: properties
\* ------------------------------------------------------------------------

\* the step hands a mouse_move to the WinHandler
MoveForwarded ==
    \E i \in (Len(handlerLog) + 1)..Len(handlerLog') :
        handlerLog'[i].cb = "mouse_move"

\* the step processes a native notification of the given type
Processes(type) == nEvents' = nEvents + 1 /\ lastEvent'.type = type

\* C9: a button-down with click count 1 of the primary button inside a
\* rectangle of the registered drag region sets the drag flag and issues
\* the native window-drag call, and from then until the next button-up no
\* mouse_move is handed to the handler.
C9_DragSuppressesMoves ==
    [][/\ (Processes("down") /\ lastEvent'.dragRegion) =>
              (drag_window' /\ dragCalls' = dragCalls + 1)
       /\ dragArmed => ~MoveForwarded]_vars

\* C10: a button-down that is outside every registered rectangle, or not of
\* the primary button, or of click count other than 1 leaves the drag flag
\* false, whatever it was before, and the mouse-move notifications that
\* follow it are handed to the handler.
C10_OtherDownNeverDrags ==
    [][/\ (Processes("down") /\ ~lastEvent'.dragRegion) => ~drag_window'
       /\ (Processes("move") /\ lastDown = "other") => MoveForwarded]_vars

\* ------------------------------------------------------------------------
\* Properties of the input notifications
\* ------------------------------------------------------------------------

\* the callbacks the handler receives in this step, in order
Delivered == SubSeq(handlerLog', Len(handlerLog) + 1, Len(handlerLog'))

\* C11: once acceptsFirstMouse has been asked, the focus flag of a mouse_up
\* callback is true on the next left button-up and on no other button-up:
\* not on the release of another button, and not on a later left button-up
\* unless acceptsFirstMouse was asked again.
C11_FocusOnNextLeftUp ==
    [][\A i \in 1..Len(Delivered) :
          Delivered[i].cb = "mouse_up" =>
              Delivered[i].focus = (focusPending /\ Delivered[i].button = "Left")]_vars

\* a left button-up carried the focus flag, and a later left button-up did
\* not
C11_Witness ==
    \E i, j \in 1..Len(handlerLog) :
        /\ i < j
        /\ handlerLog[i] = Callback("mouse_up", "Left", TRUE)
        /\ handlerLog[j] = Callback("mouse_up", "Left", FALSE)

\* the native button released in this step is one the router maps
MappedUp ==
    /\ Processes("up")
    /\ \E n \in pressed \ pressed' : get_mouse_button(n) # Nothing

\* the mouse_leave callbacks among those delivered in this step
LeavesDelivered == {i \in 1..Len(Delivered) : Delivered[i].cb = "mouse_leave"}

\* C12: with the mouse-left flag set (no mouse-enter since), the button-up
\* that releases the last held button delivers exactly one mouse_leave, and
\* delivers it after that button-up's mouse_up.
C12_LeaveAfterLastUp ==
    [][(MappedUp /\ mouse_left /\ pressed' = {}) =>
          /\ Cardinality(LeavesDelivered) = 1
          /\ \E i \in 1..Len(Delivered) :
                 /\ Delivered[i].cb = "mouse_up"
                 /\ \A j \in LeavesDelivered : i < j]_vars

\* a button-down, then the button-up that released the last held button,
\* then the leave
C12_Witness ==
    /\ lastEvent.type = "up"
    /\ pressed = {}
    /\ Len(handlerLog) >= 3
    /\ handlerLog[Len(handlerLog) - 2].cb = "mouse_down"
    /\ handlerLog[Len(handlerLog) - 1].cb = "mouse_up"
    /\ handlerLog[Len(handlerLog)].cb = "mouse_leave"

\* a button the router maps is held when this step begins
ButtonHeld == get_mouse_buttons(pressed) # {}

\* C13: when the pointer leaves the view while a mouse button is held, no
\* mouse_leave is delivered to the handler at that moment (it is delivered
\* when the last held button is released).
C13_LeaveDeferredWhileHeld ==
    [][(Processes("leave") /\ ButtonHeld) => LeavesDelivered = {}]_vars

\* C13 as the code has it: when the pointer leaves the view while a mouse
\* button is held, mouse_leave is delivered at that moment, and it is
\* delivered once more, after the mouse_up, when the last held button is
\* released with no mouse-enter in between.
C13_LeaveAtExitAndAtRelease ==
    [][/\ (Processes("leave") /\ ButtonHeld) =>
             Delivered = <<Callback("mouse_leave", "None", FALSE)>>
       /\ (MappedUp /\ mouse_left /\ pressed' = {}) =>
             /\ Len(Delivered) = 2
             /\ Delivered[2] = Callback("mouse_leave", "None", FALSE)]_vars

\* the pointer left while a button was held, and the button was released
\* after that: the handler has seen two leaves
C13_Witness ==
    \E i \in 1..Len(handlerLog) - 3 :
        /\ handlerLog[i].cb = "mouse_down"
        /\ handlerLog[i + 1].cb = "mouse_leave"
        /\ handlerLog[i + 2].cb = "mouse_up"
        /\ handlerLog[i + 3].cb = "mouse_leave"
        /\ pressed = {}

\* the handler's key_down callback ran in this step and returned false
KeyDownRefused ==
    /\ \E i \in 1..Len(Delivered) : Delivered[i].cb = "key_down"
    /\ lastReturn' = "false"

\* the native event of this step was sent to interpretKeyEvents
Forwarded == interpretCalls' # interpretCalls

\* C14: a key-down event is forwarded to the input-method path if and only
\* if the handler's key_down callback returned false for it; nothing else,
\* a key-up in particular, is forwarded.
C14_ForwardIffRefused == [][Forwarded <=> KeyDownRefused]_vars

\* C14 as the code has it: a key-down that arrives in a keyDown notification
\* is forwarded, once, if and only if key_down returned false for it; a
\* key-down that comes from a modifier-flags change is never forwarded, and
\* neither is a key-up.
C14_ForwardIffKeyDownRefused ==
    [][/\ Forwarded <=> (Processes("keyDown") /\ KeyDownRefused)
       /\ Forwarded => interpretCalls' = interpretCalls + 1]_vars

\* a refused keyDown was forwarded, and the refused key-down of a modifier
\* that followed was not
C14_Witness ==
    /\ interpretCalls = 1
    /\ lastEvent.type = "flagsChanged"
    /\ lastReturn = "false"
    /\ Len(handlerLog) >= 2
    /\ handlerLog[Len(handlerLog)].cb = "key_down"

\* the names of a sequence of callbacks
Names(log) == [i \in 1..Len(log) |-> log[i].cb]

\* the callbacks a native notification of the given type may hand to the
\* handler from inside its own callback
CallbacksOf(type) ==
    CASE type = "down" -> {<<"mouse_down">>}
      [] type = "up" -> {<<"mouse_up">>, <<"mouse_up", "mouse_leave">>}
      [] type = "move" -> {<<"mouse_move">>}
      [] type = "enter" -> {<<"mouse_move">>}
      [] type = "leave" -> {<<"mouse_leave">>}
      [] type = "scroll" -> {<<"wheel">>}
      [] type = "pinch" -> {<<"zoom">>}
      [] type = "keyDown" -> {<<"key_down">>}
      [] type = "keyUp" -> {<<"key_up">>}
      [] type = "flagsChanged" -> {<<"key_down">>, <<"key_up">>}
      [] OTHER -> {}

ChangedButtons == (pressed' \ pressed) \cup (pressed \ pressed')

\* C16: a button-down or button-up whose native button index is not one of
\* 0..4 is dropped: the handler gets no callback, the drag, focus-pending
\* and mouse-left flags keep their values, and no window drag is started.
C16_UnknownButtonDropped ==
    [][((Processes("down") \/ Processes("up")) /\ ChangedButtons \cap (0..4) = {}) =>
          /\ Delivered = <<>>
          /\ UNCHANGED <<drag_window, focus_click, mouse_left>>
          /\ UNCHANGED <<dragable_area, dragCalls, interpretCalls>>]_vars

\* a button with an unknown index went down after a drag-region click, and
\* the drag flag is still set
C16_Witness ==
    /\ lastEvent.type = "down"
    /\ 5 \in pressed
    /\ dragArmed
    /\ lastDown = "other"
    /\ drag_window

\* ------------------------------------------------------------------------
\* Window life cycle: properties
\* ------------------------------------------------------------------------

\* the callbacks of the given name the handler has received
Received(cb) == {i \in 1..Len(winLog) : winLog[i].cb = cb}

Deallocated == nsview = "live" /\ nsview' = "nil"

\* C19: when the native view is deallocated the handler's destroy() is
\* invoked in that step.
C19_DestroyAtDealloc ==
    [][Deallocated => winLog' = Append(winLog, WinCallback("destroy", 0))]_vars

\* C19 as the code has it: destroy() is invoked when the window is about to
\* close (windowWillClose); the deallocation of the view that follows drops
\* ViewState and makes no callback; the handler receives destroy() at most
\* once, and exactly once by the time the view is gone.
C19_DestroyAtWillClose ==
    /\ [](/\ Cardinality(Received("destroy")) <= 1
          /\ nsview = "nil" => Cardinality(Received("destroy")) = 1)
    /\ [][/\ Deallocated => winLog' = winLog
          /\ (nswindow # "closed" /\ nswindow' = "closed") =>
                 winLog' = Append(winLog, WinCallback("destroy", 0))]_vars

\* the window was closed and its view deallocated
C19_Witness ==
    /\ nsview = "nil"
    /\ nswindow = "closed"
    /\ winLog[Len(winLog)] = WinCallback("destroy", 0)

\* C20: once the view is gone, a call on a WindowHandle is a no-op: it does
\* not panic and it changes nothing.
C20_HandleOpsAfterViewGone ==
    [][(nOps' = nOps + 1 /\ nsview = "nil") =>
          /\ lastOp'.outcome = "noop"
          /\ UNCHANGED <<winFields, winLog, winRenderer, dragable_area>>]_vars

\* ------------------------------------------------------------------------
\* GL context negotiation: properties
\* ------------------------------------------------------------------------

\* a context creation call has ended
Created == glPc = "returned" /\ glCall.fn \in {"create_gl_context", "Context::new"}

\* the call ended with the error of a robust mode that is not supported
RobustnessRefused ==
    /\ glResult.kind = "Err"
    /\ glResult.value \in {"You requested robustness, but it is not supported.",
                            "Robustness not supported"}

\* C21: when context creation fails because a hard robust mode is not
\* supported, it fails before any other negotiation work: no pixel format has
\* been chosen or bound to the surface and no native context has been
\* created, on macOS and on Windows.
C21_RobustnessRefusedFirst ==
    (Created /\ RobustnessRefused)
        => /\ glEffects.chosen = 0
           /\ ~glEffects.bound
           /\ glEffects.context = "none"

\* the driver advertises the robustness capability; macOS never has it
RobustnessAdvertised ==
    /\ glCall.fn # "create_gl_context"
    /\ Has(glCall.platform.extensions, "WGL_ARB_create_context_robustness")

\* C22: on a platform that lacks the robustness capability, a request for
\* RobustNoResetNotification or RobustLoseContextOnReset makes context
\* creation fail and is never answered with a context, while the four other
\* modes never fail for that reason.
C22_HardRobustNeverDowngraded ==
    (/\ glPc = "returned"
     /\ glCall.fn \in {"create_gl_context", "Context::new", "create_context"}
     /\ ~RobustnessAdvertised)
        => IF glCall.opengl.robustness \in HardRobust
           THEN glResult.kind # "Ok" /\ glEffects.context = "none"
           ELSE ~RobustnessRefused

\* get_gl_profile has returned
ProfileResolved == glPc = "returned" /\ glCall.fn = "get_gl_profile"

\* get_gl_profile has returned for a request of version v, the profile left
\* open
ExactVersion(kinds, v) ==
    /\ ProfileResolved
    /\ glCall.opengl.version.kind \in kinds
    /\ glCall.opengl.version.version = v
    /\ glCall.opengl.profile = None

\* C23 as stated: for every api, Specific(api, (3,2)) with no profile
\* resolves to the 3.2-core profile, never to legacy and never to an error.
C23_Specific32IsCore ==
    ExactVersion({"Specific"}, <<3, 2>>)
        => glResult = Ok(NSOpenGLProfileVersion3_2Core)

\* C23 amended: Specific(OpenGl, (3,2)) with no profile resolves to the
\* 3.2-core profile, never to legacy and never to an error; with api OpenGlEs
\* or WebGl the request is an error.
C23_SpecificOpenGl32IsCore ==
    ExactVersion({"Specific"}, <<3, 2>>)
        => IF glCall.opengl.version.api = "OpenGl"
           THEN glResult = Ok(NSOpenGLProfileVersion3_2Core)
           ELSE glResult.kind = "Err"

C23_Witness ==
    /\ ExactVersion({"Specific"}, <<3, 2>>)
    /\ glCall.opengl.version.api = "OpenGl"
    /\ glResult.value = NSOpenGLProfileVersion3_2Core

\* the place of a version among the (u8, u8) pairs, major number first
Ordinal(v) == v[1] * U8Range + v[2]

\* what the claim C24 says a version other than (3,2) resolves to
LegacyBelowCoreAbove(v) ==
    IF Ordinal(v) < Ordinal(<<3, 2>>)
    THEN Ok(NSOpenGLProfileVersionLegacy)
    ELSE Ok(NSOpenGLProfileVersion4_1Core)

\* C24 as stated: for every exact version v with no profile and for every
\* api, v < (3,2) resolves to the legacy profile and v > (3,2) to the
\* 4.1-core profile, never to an error.
C24_LegacyBelow32 ==
    \A v \in GlVersions \ {<<3, 2>>} :
        ExactVersion({"Specific", "GlThenGles"}, v)
            => glResult = LegacyBelowCoreAbove(v)

\* C24 amended: for every exact desktop version v (Specific(OpenGl, v), or
\* GlThenGles with opengl_version v) with no profile, v <= (2,1) resolves to
\* the legacy profile, v > (3,2) to the 4.1-core profile and a version
\* between them, such as (3,0) or (3,1), is an error; Specific with api
\* OpenGlEs or WebGl is an error for every v.
C24_LegacyUpTo21 ==
    \A v \in GlVersions \ {<<3, 2>>} :
        ExactVersion({"Specific", "GlThenGles"}, v)
            => IF glCall.opengl.version.api \in {"OpenGlEs", "WebGl"}
               THEN glResult.kind = "Err"
               ELSE IF Ordinal(<<2, 1>>) < Ordinal(v) /\ Ordinal(v) < Ordinal(<<3, 2>>)
               THEN glResult.kind = "Err"
               ELSE glResult = LegacyBelowCoreAbove(v)

C24_Witness ==
    /\ ExactVersion({"Specific"}, <<3, 1>>)
    /\ glCall.opengl.version.api = "OpenGl"
    /\ glResult = Err(VersionNotSupported)

\* C25: a request for the Compatibility profile that carries version (4,1)
\* fails, for every api and every request shape; a Compatibility request
\* succeeds, as the legacy profile, only when the version it carries is
\* below (3,2).
C25_CompatibilityBelow32Only ==
    (/\ ProfileResolved
     /\ glCall.opengl.profile = Some("Compatibility")
     /\ glCall.opengl.version.kind # "Latest")
        => IF Ordinal(glCall.opengl.version.version) < Ordinal(<<3, 2>>)
           THEN glResult = Ok(NSOpenGLProfileVersionLegacy)
           ELSE glResult.kind = "Err"

\* the profile of each candidate array handed to the platform: the slot
\* written last
Probed == [i \in 1..Len(glEffects.probes) |->
              LET probe == glEffects.probes[i]
              IN  probe.attributes[probe.writes[Len(probe.writes)]]]

\* newest first, the first profile the platform accepts, legacy if none, and
\* no probe after an acceptance
NewestAccepted ==
    LET accepts == glCall.platform
    IN  /\ NSOpenGLProfileVersion4_1Core \in accepts
            => /\ glResult = Ok(NSOpenGLProfileVersion4_1Core)
               /\ Probed = <<AsU32(NSOpenGLProfileVersion4_1Core)>>
        /\ NSOpenGLProfileVersion4_1Core \notin accepts
            => /\ Probed = <<AsU32(NSOpenGLProfileVersion4_1Core),
                             AsU32(NSOpenGLProfileVersion3_2Core)>>
               /\ glResult = IF NSOpenGLProfileVersion3_2Core \in accepts
                             THEN Ok(NSOpenGLProfileVersion3_2Core)
                             ELSE Ok(NSOpenGLProfileVersionLegacy)

\* C26 as stated: with GlRequest::Latest, get_gl_profile probes 4.1-core then
\* 3.2-core, returns the first the platform does not reject without probing
\* further, and returns legacy, never an error, when both are rejected.
C26_LatestProbesNewestFirst ==
    (ProfileResolved /\ glCall.opengl.version.kind = "Latest")
        => NewestAccepted

\* C26 amended: the same, for a Latest request whose profile is not
\* Compatibility; Latest with the Compatibility profile returns the legacy
\* profile without probing.
C26_LatestProbesUnlessCompatibility ==
    (ProfileResolved /\ glCall.opengl.version.kind = "Latest")
        => IF glCall.opengl.profile = Some("Compatibility")
           THEN /\ glResult = Ok(NSOpenGLProfileVersionLegacy)
                /\ Probed = <<>>
           ELSE NewestAccepted

C26_Witness ==
    /\ ProfileResolved
    /\ glCall.opengl.version.kind = "Latest"
    /\ glCall.opengl.profile = None
    /\ glCall.platform = {NSOpenGLProfileVersion3_2Core}
    /\ glResult = Ok(NSOpenGLProfileVersion3_2Core)
    /\ Len(glEffects.probes) = 2

\* Context::new has returned a PixelFormat
FormatReturned ==
    /\ glPc = "returned"
    /\ glCall.fn = "Context::new"
    /\ glResult.kind = "Ok"

\* the format in glResult has at least the sizes pf_reqs asks for
MeetsMinimums(pf_reqs) ==
    /\ glResult.value.color_bits >= unwrap_or(pf_reqs.color_bits, 0)
    /\ glResult.value.alpha_bits >= unwrap_or(pf_reqs.alpha_bits, 0)
    /\ glResult.value.depth_bits >= unwrap_or(pf_reqs.depth_bits, 0)
    /\ glResult.value.stencil_bits >= unwrap_or(pf_reqs.stencil_bits, 0)

\* C27: every PixelFormat returned by a successful context creation has
\* color, alpha, depth and stencil sizes at least as large as each size the
\* requirements give, whatever format the platform grants: on the legacy and
\* on the extended selection path, and when the surface already had a format.
C27_FormatMeetsMinimums ==
    FormatReturned => MeetsMinimums(glCall.pf_reqs)

\* the platform of the call with the other selection path: the same driver
\* with WGL_ARB_pixel_format taken from, or added to, its extensions
OtherPath ==
    LET platform == glCall.platform
        name == "WGL_ARB_pixel_format"
    IN  [platform EXCEPT !.extensions =
             IF Has(platform.extensions, name)
             THEN platform.extensions \ {name}
             ELSE platform.extensions \cup {name}]

\* what Context::new returns for the same call on the other selection path
OnOtherPath ==
    ContextNegotiation(glCall.pf_reqs, glCall.opengl, OtherPath.extensions,
                       OtherPath.bound, OtherPath.picked,
                       OtherPath.fails).result

\* C28: the legacy and the extended selection path are interchangeable: for
\* the same requirements (the default ones included) and the same format
\* offered by the platform, both paths fail or both succeed with the same
\* PixelFormat.
C28_PathsInterchangeable ==
    (/\ glPc = "returned"
     /\ glCall.fn = "Context::new"
     /\ Answers(glCall.pf_reqs, OtherPath))
        => /\ OnOtherPath.kind = glResult.kind
           /\ glResult.kind = "Ok" => OnOtherPath.value = glResult.value

\* the call chose a pixel format from requirements whose release behavior
\* is not Flush
ReleaseRequested ==
    /\ Created
    /\ glCall.pf_reqs.release_behavior # "Flush"
    /\ glCall.fn = "Context::new" => glCall.platform.bound = 0

\* the driver advertises the release-control capability; macOS never has it
ReleaseControlAdvertised ==
    /\ glCall.fn = "Context::new"
    /\ Has(glCall.platform.extensions, "WGL_ARB_context_flush_control")

\* C29: a release behavior other than Flush makes the negotiation fail, with
\* no format chosen, on every selection path unless the platform advertises
\* the release-control extension; it is never silently ignored. When the
\* extension is advertised, the extended path encodes the release behavior
\* in its attribute list.
C29_ReleaseBehaviorRejected ==
    ReleaseRequested
        => IF ~ReleaseControlAdvertised
           THEN glResult.kind # "Ok" /\ glEffects.chosen = 0
           ELSE LET descriptor == ArbDescriptor(glCall.platform.extensions,
                                                glCall.pf_reqs)
                IN  descriptor.kind = "Ok"
                        => descriptor.value.release_behavior = Some("None")

\* the call reached the stereoscopy flag of requirements that set it, on a
\* backend that does not implement it: build_nsattributes on macOS, after the
\* robustness, profile and release behavior tests; the legacy selection path
\* on Windows
StereoscopyNotImplemented ==
    /\ Created
    /\ glCall.pf_reqs.stereoscopy
    /\ IF glCall.fn = "create_gl_context"
       THEN /\ glCall.opengl.robustness \notin HardRobust
            /\ get_gl_profile(glCall.opengl, glCall.pf_reqs,
                              glCall.platform.accepts).result.kind = "Ok"
            /\ glCall.pf_reqs.release_behavior = "Flush"
       ELSE /\ ~Has(glCall.platform.extensions, "WGL_ARB_pixel_format")
            /\ glCall.platform.bound = 0

\* C30: a request for stereoscopy on a backend that does not implement it
\* makes context creation return an error value, other than the error of a
\* negotiation that found no matching format; creation does not go on and
\* does not panic.
C30_StereoscopyIsAnError ==
    StereoscopyNotImplemented
        => /\ glResult.kind = "Err"
           /\ glResult.value \notin {NoPixelFormat, NoAvailablePixelFormat}
           /\ glEffects.chosen = 0

\* build_nsattributes has returned
AttributesBuilt == glPc = "returned" /\ glCall.fn = "build_nsattributes"

\* the number of attributes the requirements of the call add to the twelve
\* fixed slots
FlagSlots ==
    (IF glCall.pf_reqs.hardware_accelerated = Some(TRUE) THEN 1 ELSE 0)
    + (IF glCall.pf_reqs.double_buffer # Some(FALSE) THEN 1 ELSE 0)

\* C31: for every color depth c and alpha depth a (any u8 value, or the
\* defaults 24 and 8), build_nsattributes succeeds with a list whose
\* color-size attribute is exactly c + a and whose alpha-size attribute is
\* a, with no wrap-around, and which ends with one 0 after the attributes.
C31_ColorSizeIsSum ==
    AttributesBuilt
        => LET a == unwrap_or(glCall.pf_reqs.alpha_bits, 8)
               c == unwrap_or(glCall.pf_reqs.color_bits, 24)
           IN  /\ glResult.kind = "Ok"
               /\ glResult.value[4] = NSOpenGLPFAColorSize
               /\ glResult.value[5] = c + a
               /\ glResult.value[6] = NSOpenGLPFAAlphaSize
               /\ glResult.value[7] = a
               /\ Len(glResult.value) = 12 + FlagSlots + 1
               /\ glResult.value[Len(glResult.value)] = 0

\* get_gl_profile has returned from its Latest path
LatestProbed ==
    /\ ProfileResolved
    /\ glCall.opengl.version.kind = "Latest"
    /\ glCall.opengl.profile # Some("Compatibility")

\* C39: in the Latest path, for every combination of the hardware_accelerated
\* and double_buffer requirements, every write into the 6-slot attribute
\* array is at an index within 0..4: no write is out of bounds, slot 5 is
\* never written, and each candidate array handed to the platform has a 0
\* right after its last attribute.
C39_ProbeArrayInBounds ==
    LatestProbed
        => /\ glResult.kind # "Panic"
           /\ Len(glEffects.probes) >= 1
           /\ \A i \in 1..Len(glEffects.probes) :
                 LET probe == glEffects.probes[i]
                     last == probe.writes[Len(probe.writes)]
                 IN  /\ ~probe.panicked
                     /\ \A w \in 1..Len(probe.writes) :
                            probe.writes[w] \in 0..4
                     /\ probe.attributes[5] = 0
                     /\ probe.attributes[last + 1] = 0

\* hardware acceleration is required and double buffering is not refused:
\* both probes fill the slots 0 to 4
C39_Witness ==
    /\ LatestProbed
    /\ glCall.pf_reqs.hardware_accelerated = Some(TRUE)
    /\ glCall.pf_reqs.double_buffer = Some(TRUE)
    /\ Len(glEffects.probes) = 2
    /\ glEffects.probes[2].writes = <<0, 1, 2, 3, 4>>
    /\ glEffects.probes[2].attributes[4] = AsU32(NSOpenGLProfileVersion3_2Core)

\* ------------------------------------------------------------------------
\* Properties of the window geometry
\* ------------------------------------------------------------------------

\* C32: once a set_position(p) has been drained, get_position() returns p,
\* for a window with or without a parent, as long as the window height and
\* the parent's position are what they were (the screen height is fixed)
C32_PositionRoundTrip ==
    sought # None => get_position(frame, parentPos) = sought[1]

\* a child window whose parent is away from the origin has been moved to a
\* position below the top of the parent
C32_Witness ==
    /\ sought # None
    /\ sought[1].y > 0
    /\ parentPos # None
    /\ parentPos[1].y > 0
    /\ frame.height > 1

\* C33: after construction and after any sequence of frame size changes and
\* backing property changes the view has been told of, the renderer's size
\* is the logical size of the view times the backing scale of the window,
\* and the renderer's scale is that backing scale
C33_RendererFollowsView ==
    geoLife \in {"open", "closed"} /\ backingNoted =>
        /\ geoRenderer.size = Size(ViewSize.width * backingScale,
                                   ViewSize.height * backingScale)
        /\ geoRenderer.scale = backingScale

\* the window was resized and came to a screen of scale 2, in either order
C33_Witness ==
    /\ geoNotes = 2
    /\ backingNoted
    /\ backingScale = 2
    /\ geoRenderer.size = Size(2 * MaxExtent, 2 * MaxExtent)
    /\ geoExecuted = <<>>

\* C34: set_size and set_position, called from the run loop or from inside
\* a handler callback, leave the frame of the window as it is and put one
\* DeferredOp at the end of the idle queue; apart from what the platform
\* does, the frame changes only when run_idle executes a taken DeferredOp,
\* and the items are executed in the order of their pushes
C34_FrameChangesOnlyWhenDrained ==
    [][/\ geoOps' > geoOps =>
            /\ frame' = frame
            /\ geoQueue' # <<>>
            /\ SubSeq(geoQueue', 1, Len(geoQueue') - 1) = geoQueue
            /\ geoQueue'[Len(geoQueue')].id = geoOps'
       /\ (frame' # frame /\ geoLife # "unbuilt" /\ geoNotes' = geoNotes) =>
            /\ geoTaken # <<>>
            /\ Head(geoTaken).kind = "DeferredOp"
            /\ geoTaken' = Tail(geoTaken)
            /\ geoExecuted' = Append(geoExecuted, Executed(Head(geoTaken)))
       /\ \A i, j \in 1..Len(geoExecuted') :
            i < j => geoExecuted'[i].id < geoExecuted'[j].id]_vars

\* a set_position made by the handler inside its idle callback has been
\* executed by a later run_idle, after the token of that callback
C34_Witness ==
    /\ Len(geoExecuted) = 2
    /\ geoExecuted[2].nested
    /\ sought # None
    /\ frame.x = MaxCoord

\* C37: once the handler has received destroy() for the window, run_idle
\* delivers no idle token to it, whether the token was pushed before or
\* after the close
C37_NoCallbackAfterDestroy ==
    [][geoLife = "closed" =>
          ~(/\ geoTaken # <<>>
            /\ Head(geoTaken).kind = "Token"
            /\ geoTaken' = Tail(geoTaken)
            /\ geoExecuted' = Append(geoExecuted,
                                     Executed(Head(geoTaken))))]_vars

\* ------------------------------------------------------------------------
\* Properties of the scroll deltas
\* ------------------------------------------------------------------------

Abs(n) == IF n < 0 THEN -n ELSE n

\* C35: on each axis by itself, a native delta d of a wheel without precise
\* deltas reaches the handler with magnitude 32 * |d|, and a native delta d
\* with precise deltas reaches it with magnitude |d|
C35_ScrollDeltaScaling ==
    glPc = "returned" /\ glCall.fn = "scroll_wheel" =>
        LET native == glCall.platform
            factor == IF native.precise THEN 1 ELSE 32
        IN  /\ Abs(glResult.value.x) = factor * Abs(native.deltaX)
            /\ Abs(glResult.value.y) = factor * Abs(native.deltaY)

\* a wheel event of one line to the right and two lines up
C35_Witness ==
    /\ glPc = "returned"
    /\ glCall.fn = "scroll_wheel"
    /\ ~glCall.platform.precise
    /\ glCall.platform.deltaX = 1
    /\ glCall.platform.deltaY = -2
    /\ glResult.value = Point(-32, 64)

\* ------------------------------------------------------------------------
\* Progress of the idle queue
\* ------------------------------------------------------------------------

\* the ids an item can have
AllItemIds ==
    {<<UI, n>> : n \in 1..MaxUiPush} \cup (Producers \X (1..MaxPush))

Queued(id) == \E i \in 1..Len(queue) : queue[i].id = id

Balanced(log) ==
    /\ Len(log) % 2 = 0
    /\ \A i \in 1..Len(log) :
          IF i % 2 = 1 THEN log[i].cb = "acquire_input_lock"
          ELSE /\ log[i].cb = "release_input_lock"
               /\ log[i].token = log[i - 1].token

\* C38: through any sequence of with_edit_lock_from_window,
\* set_focused_text_field and update_text_field calls, every
\* acquire_input_lock(t) is followed by release_input_lock(t) before any
\* other acquire, the lock is taken for the focused field only (the field
\* that loses the focus and the one that gets it, when the call moves the
\* focus), and an update_text_field for a field that is not the focused
\* one does nothing
C38_InputLockBalanced ==
    [][glCall.fn = "text_input" =>
         LET before == glResult.value
             after == glResult'.value
             call == NextTextCall
             added == SubSeq(after.log, Len(before.log) + 1, Len(after.log))
         IN  /\ SubSeq(after.log, 1, Len(before.log)) = before.log
             /\ Balanced(after.log)
             /\ \A i \in 1..Len(added) :
                   /\ added[i].token # "None"
                   /\ added[i].token \in {before.active, after.active}
                   /\ call.fn # "set_focused_text_field" =>
                         added[i].token = before.active
             /\ (call.fn = "update_text_field"
                    /\ call.token # before.active) =>
                   /\ after.log = before.log
                   /\ after.active = before.active]_vars

\* field A got the focus, the input method edited it, then a selection
\* change of field B was reported and changed nothing
C38_Witness ==
    /\ glCall.fn = "text_input"
    /\ glResult.value.done = 3
    /\ glCall.platform.calls[1]
           = TextCall("set_focused_text_field", "A", "Reset", TRUE)
    /\ glCall.platform.calls[2].fn = "with_edit_lock_from_window"
    /\ glCall.platform.calls[3]
           = TextCall("update_text_field", "B", "SelectionChanged", TRUE)
    /\ glResult.value.active = "A"
    /\ Len(glResult.value.log) = 4

\* ------------------------------------------------------------------------
\* Properties of load_extra_functions
\* ------------------------------------------------------------------------

\* the steps of load_extra_functions after the guard has been created
GuardCreated == wglPc \in {"dummy_load", "drop_dummy_ctx", "drop_dummy_win"}

====
